---- MODULE Spec2Model ----
(***************************************************************************)
(* pySMX protocol engine: command framing (make_send_packets), report      *)
(* assembly (handle_packet) and the send/wait cycle (send_packets) of      *)
(* src/pysmx/sdk/packets.py, with their callers in src/pysmx/sdk/api.py.   *)
(*                                                                         *)
(* Bytes are integers 0..255, a report is a sequence of bytes (64 of them  *)
(* when well formed), Python's 0-based index i is the 1-based index i+1.   *)
(* Time is kept in milliseconds instead of nanoseconds so that it fits the *)
(* model checker's integers; s_to_ns keeps its name and scales by 1000.    *)
(***************************************************************************)
EXTENDS Integers, Sequences, FiniteSets, TLC

(***************************************************************************)
(* Bounds of the model.                                                    *)
(***************************************************************************)
\* longest command drawn for the framing checks (123 = 2 * 61 + 1: 3 reports)
MaxCmdLen == 123
\* reports handed to one assembly buffer in the assembler checks
MaxFeeds == 2
\* send_packets calls in one behaviour of the session
MaxCalls == 2
\* the session clock stops advancing here (milliseconds)
MaxNow == 6000
\* non-empty reads of one send_packets call
MaxReads == 2
\* reports the device holds undelivered
MaxPending == 2
\* the clock advances by this much (milliseconds)
TickMs == 1500
MaxSeed == 11
MaxClock == 2200
MaxWrites == 3
MaxLoops == 4
MaxOps == 3

(***************************************************************************)
(* Program constants: src/pysmx/sdk/packets.py:13-25,77,88,94,180.         *)
(***************************************************************************)
PACKET_FLAG_START_OF_COMMAND == 4
PACKET_FLAG_END_OF_COMMAND == 1
PACKET_FLAG_HOST_CMD_FINISHED == 2
PACKET_FLAG_DEVICE_INFO == 128
HID_REPORT_INPUT == 3
HID_REPORT_COMMAND == 6
\* the report id make_send_packets puts in byte 0 of every outbound report
HID_REPORT_OUT == 5
\* size of one report
REPORT_SIZE == 64
\* most command bytes one report carries
MAX_CHUNK == 61
\* the wait of send_packets, in seconds
TIMEOUT_S == 3
GET_DEVICE_INFO == 105
GET_CONFIG == 103
FACTORY_RESET == 102
SET_LIGHT_STRIP == 76
GET_CONFIG_V5 == 71
GET_SENSOR_TEST_DATA == 121
RETRIES == 3
HID_RETRIES == 3
WC_SECONDS == 1
\* model milliseconds per second (the source counts 1000000000 ns)
UNITS_PER_S == 1000

Min(a, b) == IF a < b THEN a ELSE b

\* x & f == f for a single-bit mask f
HasFlag(x, f) == (x \div f) % 2 = 1

\* Python's list[a : b] for 0 <= a, clipped to the list as Python clips it
Slice(list, a, b) == SubSeq(list, a + 1, Min(b, Len(list)))

\* utils.pad_list: append zero bytes until the list holds count items
pad_list(list, count) == list \o [i \in 1..(count - Len(list)) |-> 0]

\* utils.s_to_ns, in model time units
s_to_ns(seconds) == seconds * UNITS_PER_S

EMPTY_PACKET == pad_list(<<5, 5>>, REPORT_SIZE)
ACK_PACKET == pad_list(<<6, 7>>, REPORT_SIZE)

(***************************************************************************)
(* make_send_packets: the while loop of packets.py:75-100, one iteration   *)
(* per recursion step; flags are or-ed from disjoint bits, hence added.    *)
(***************************************************************************)
\* packets.py:79-81
StartFlag(idx) == IF idx = 0 THEN PACKET_FLAG_START_OF_COMMAND ELSE 0

\* the last report recognised by being short of a full chunk
EndFlag_ShortChunk(idx, packet_size, cmd_len) ==
    IF packet_size < MAX_CHUNK THEN PACKET_FLAG_END_OF_COMMAND ELSE 0

\* packets.py:83-85
EndFlag(idx, packet_size, cmd_len) ==
    IF idx + packet_size = cmd_len THEN PACKET_FLAG_END_OF_COMMAND ELSE 0

\* chunks of 60 bytes instead of 61
PacketSize_Chunk60(cmd_len, idx) == Min(cmd_len - idx, MAX_CHUNK - 1)

\* packets.py:77
PacketSize(cmd_len, idx) == Min(cmd_len - idx, MAX_CHUNK)

\* the report padded to 64 entries after the header instead of 64 in all
MakePacket_PadAfterHeader(cmd, idx, packet_size) ==
    LET flags == StartFlag(idx) + EndFlag(idx, packet_size, Len(cmd))
        head == <<HID_REPORT_OUT, flags, packet_size>>
                    \o SubSeq(cmd, idx + 1, idx + packet_size)
    IN  head \o [i \in 1..(REPORT_SIZE - (Len(head) - 3)) |-> 0]

\* packets.py:88-94: header, command data, zero padding up to 64 entries
MakePacket(cmd, idx, packet_size) ==
    LET flags == StartFlag(idx) + EndFlag(idx, packet_size, Len(cmd))
        head == <<HID_REPORT_OUT, flags, packet_size>>
                    \o SubSeq(cmd, idx + 1, idx + packet_size)
    IN  head \o [i \in 1..(REPORT_SIZE - Len(head)) |-> 0]

RECURSIVE make_send_packets_loop(_, _, _)
make_send_packets_loop(cmd, idx, packets) ==
    LET packet_size == PacketSize(Len(cmd), idx)
        packets2 == Append(packets, MakePacket(cmd, idx, packet_size))
        idx2 == idx + packet_size
    IN  IF idx2 >= Len(cmd) THEN packets2
        ELSE make_send_packets_loop(cmd, idx2, packets2)

make_send_packets(cmd) == make_send_packets_loop(cmd, 0, <<>>)

(***************************************************************************)
(* handle_packet (packets.py:105-170).  The result is the returned flag,   *)
(* the buffer as the call leaves it, and whether the call raised           *)
(* (an input report shorter than 3 entries is indexed at 1 and 2).         *)
(***************************************************************************)
\* packets.py:117-121: the 9 input states of the 16-bit value
InputStates_BigEndian(packet) ==
    LET input_state == (packet[2] % 256) * 256 + (packet[3] % 256)
    IN  [i \in 1..9 |-> HasFlag(input_state, 2 ^ (i - 1))]

\* packets.py:116-120
InputStates(packet) ==
    LET input_state == (packet[3] % 256) * 256 + (packet[2] % 256)
    IN  [i \in 1..9 |-> HasFlag(input_state, 2 ^ (i - 1))]

\* the length check left out
Oversized_Never(packet) == FALSE

\* packets.py:144
Oversized(packet) == 3 + packet[3] > Len(packet)

\* the buffer never cleared on a start flag
Resync_Never(cmd, current_packet) == FALSE

\* packets.py:150: a start flag while the buffer holds bytes
Resync(cmd, current_packet) ==
    HasFlag(cmd, PACKET_FLAG_START_OF_COMMAND) /\ Len(current_packet) > 0

\* the payload slice taken one byte short
Assemble_ShortSlice(packet, current_packet) ==
    LET data == Slice(packet, 3, 2 + packet[3])
    IN  IF Resync(packet[2], current_packet) THEN data
        ELSE current_packet \o data

\* packets.py:148-158: the buffer after the payload slice is appended
Assemble(packet, current_packet) ==
    LET data == Slice(packet, 3, 3 + packet[3])
    IN  IF Resync(packet[2], current_packet) THEN data
        ELSE current_packet \o data

\* the host-command-finished flag taken for an end as well
EndOfCommand_OrFinished(cmd) ==
    \/ HasFlag(cmd, PACKET_FLAG_END_OF_COMMAND)
    \/ HasFlag(cmd, PACKET_FLAG_HOST_CMD_FINISHED)

\* packets.py:167
EndOfCommand(cmd) == HasFlag(cmd, PACKET_FLAG_END_OF_COMMAND)

\* the report's own id not looked at
SameChannel_Caller(packet_report_id, report_id, kind) == report_id = kind

\* packets.py:111 and 126: packet_report_id == report_id == kind
SameChannel(packet_report_id, report_id, kind) ==
    packet_report_id = report_id /\ report_id = kind

handle_packet(packet, current_packet, report_id) ==
    LET same == [done |-> FALSE, buf |-> current_packet, raised |-> FALSE]
    IN  IF Len(packet) = 0 THEN same
        ELSE IF SameChannel(packet[1], report_id, HID_REPORT_INPUT)
        THEN IF Len(packet) < 3
             THEN [done |-> FALSE, buf |-> current_packet, raised |-> TRUE]
             ELSE [done |-> TRUE,
                   buf |-> current_packet \o InputStates(packet),
                   raised |-> FALSE]
        ELSE IF SameChannel(packet[1], report_id, HID_REPORT_COMMAND)
        THEN IF Len(packet) < 3 THEN same
             ELSE IF Oversized(packet) THEN same
             ELSE [done |-> EndOfCommand(packet[2]),
                   buf |-> Assemble(packet, current_packet),
                   raised |-> FALSE]
        ELSE same

(***************************************************************************)
(* State.                                                                  *)
(* f_*: one command framed and its reports fed back to an empty buffer.    *)
(* a_*: one assembly buffer and the reports handle_packet is given.        *)
(* The rest is one device session: the send_packets calls made on one      *)
(* SMXHID, the clock, the device handle and the reports the device has     *)
(* still to deliver.                                                       *)
(***************************************************************************)
VARIABLES
    f_cmd,        \* the command given to make_send_packets
    f_packets,    \* the reports it returned
    f_id,         \* byte 0 the reports carry when they are fed back
    f_buf,        \* current_packet of the feeding loop
    f_ret,        \* handle_packet's return value for each report fed so far
    a_rid,        \* report_id the caller waits for
    a_buf,        \* current_packet
    a_packet,     \* the report of the last handle_packet call
    a_before,     \* current_packet as that call found it
    a_ret,        \* the result of that call
    a_n,          \* handle_packet calls so far
    pc,           \* where send_packets stands: idle, open, write or wait
    packets,      \* send_packets: the reports to write
    acknowledge,  \* send_packets: whether an acknowledgement ends the wait
    report_id,    \* send_packets: the report kind waited for
    widx,         \* position of the for loop over packets (1-based)
    current_packet, \* send_packets: the assembly buffer
    current_time, \* send_packets: the clock when the call started
    now,          \* monotonic clock
    dev_open,     \* whether the handle of the device is open
    calls,        \* send_packets calls started so far
    outcomes,     \* how each finished call ended, by call number
    response,     \* what the last finished call returned
    written,      \* reports this call has written to the device, in order
    has_read,     \* whether this call has called dev.read
    rx,           \* non-empty reports this call has read, in order
    last_rx,      \* the last of them: whose it was and what it did
    abandoned,    \* the buffer as the last timed-out call left it
    awaiting,     \* device: calls whose command it has still to answer
    pending,      \* device: reports not yet delivered, with the call they answer
    k_op,         \* codec: the operation applied to the bytes
    k_in,         \* codec: the bytes handed to it
    k_fw,         \* codec: device_info.firmware_version of the stage
    k_mode,       \* codec: the mode given to get_sensor_test_data
    k_out,        \* codec: what the operation returned or raised
    k_done,       \* codec: whether the operation has run
    monotonic,    \* API: monotonic_ns(), in units of s_to_ns
    wc_time,      \* API: TIMERS.wc_time
    stages,       \* API: the players SMXAPI.stages has a stage for
    has_config,   \* API: the players whose stage has a _config
    w_n,          \* API: write_stage_config calls so far
    w_log,        \* API: the calls that passed the rate limit: player and time
    w_last,       \* API: the last write_stage_config call and how it went
    t_fw,         \* stage: device_info.firmware_version
    t_config,     \* stage: SMXStage._config
    t_dev,        \* stage: the configuration the device holds
    t_n,          \* stage: API calls so far
    t_last,       \* stage: the last API call and how it went
    in_pipe,      \* relay: the input pipe: commands not yet read by write_usb
    usb_out,      \* relay: the reports written to the device, in order
    usb_in,       \* relay: the reports the device sent and dev.read has not returned
    queue,        \* relay: the asyncio queue between read_usb and handle_usb
    r_buf,        \* relay: current_packet of handle_usb
    out_pipe,     \* relay: the messages written to the output pipe, in order
    thread,       \* relay: what the event loop's thread is doing
    r_placed,     \* relay: commands placed on the input pipe so far
    r_seen,       \* relay: the items handle_usb has taken from the queue
    r_written     \* relay: commands write_usb has finished with

fvars == <<f_cmd, f_packets, f_id, f_buf, f_ret>>
avars == <<a_rid, a_buf, a_packet, a_before, a_ret, a_n>>

svars == <<pc, packets, acknowledge, report_id, widx, current_packet,
           current_time, now, dev_open, calls, outcomes, response, written,
           has_read, rx, last_rx, abandoned, awaiting, pending>>

kvars == <<k_op, k_in, k_fw, k_mode, k_out, k_done>>

pvars == <<monotonic, wc_time, stages, has_config, w_n, w_log, w_last>>

tvars == <<t_fw, t_config, t_dev, t_n, t_last>>

rvars == <<in_pipe, usb_out, usb_in, queue, r_buf, out_pipe, thread,
           r_placed, r_seen, r_written>>

vars == <<fvars, avars, svars, kvars, pvars, tvars, rvars>>

\* the variables of a part that a specification does not exercise
FramingOff ==
    /\ f_cmd = <<>>
    /\ f_packets = <<>>
    /\ f_id = HID_REPORT_COMMAND
    /\ f_buf = <<>>
    /\ f_ret = <<>>

NoResult == [done |-> FALSE, buf |-> <<>>, raised |-> FALSE]

AssemblerOff ==
    /\ a_rid = HID_REPORT_COMMAND
    /\ a_buf = <<>>
    /\ a_packet = <<>>
    /\ a_before = <<>>
    /\ a_ret = NoResult
    /\ a_n = 0

NoRx == [owner |-> 0, data |-> <<>>, before |-> <<>>, ended |-> FALSE]

SessionOff ==
    /\ pc = "idle"
    /\ packets = <<>>
    /\ acknowledge = FALSE
    /\ report_id = HID_REPORT_COMMAND
    /\ widx = 1
    /\ current_packet = <<>>
    /\ current_time = 0
    /\ now = 0
    /\ dev_open = FALSE
    /\ calls = 0
    /\ outcomes = <<>>
    /\ response = <<>>
    /\ written = <<>>
    /\ has_read = FALSE
    /\ rx = <<>>
    /\ last_rx = NoRx
    /\ abandoned = <<>>
    /\ awaiting = <<>>
    /\ pending = <<>>

NoObject == [none |-> TRUE]

NoOut == [raised |-> "", value |-> NoObject]

CodecOff ==
    /\ k_op = "none"
    /\ k_in = <<>>
    /\ k_fw = 0
    /\ k_mode = 0
    /\ k_out = NoOut
    /\ k_done = FALSE

NoCall == [player |-> 0, time |-> 0, known |-> FALSE, enumerations |-> 0,
           io |-> <<>>, result |-> "none", before |-> <<>>]

ApiOff ==
    /\ monotonic = 0
    /\ wc_time = 0
    /\ stages = {}
    /\ has_config = {}
    /\ w_n = 0
    /\ w_log = <<>>
    /\ w_last = NoCall

\* SMXStage._config is None
NoConfig == [none |-> TRUE]

NoApiCall == [op |-> "none", raised |-> "", value |-> NoConfig,
              before |-> NoConfig, io |-> <<>>]

StageOff ==
    /\ t_fw = 0
    /\ t_config = NoConfig
    /\ t_dev = NoConfig
    /\ t_n = 0
    /\ t_last = NoApiCall

RelayOff ==
    /\ in_pipe = <<>>
    /\ usb_out = <<>>
    /\ usb_in = <<>>
    /\ queue = <<>>
    /\ r_buf = <<>>
    /\ out_pipe = <<>>
    /\ thread = "loop"
    /\ r_placed = 0
    /\ r_seen = <<>>
    /\ r_written = 0

\* a command of n bytes; the bytes run through 0..255
CmdOf(n, seed) == [i \in 1..n |-> (seed + 7 * i) % 256]

CmdSeeds == {0, 249}

FramingCmds == {CmdOf(n, s) : n \in 0..MaxCmdLen, s \in CmdSeeds}

\* byte 0 of a report replaced, as for a report that comes back from the device
WithReportId(packet, id) == [packet EXCEPT ![1] = id]

FramingInit ==
    /\ f_cmd \in FramingCmds
    /\ f_packets = make_send_packets(f_cmd)
    /\ f_id \in {HID_REPORT_OUT, HID_REPORT_COMMAND}
    /\ f_buf = <<>>
    /\ f_ret = <<>>
    /\ AssemblerOff
    /\ SessionOff
    /\ CodecOff
    /\ ApiOff
    /\ StageOff
    /\ RelayOff

\* the next report of f_packets goes through handle_packet
FeedReport ==
    /\ Len(f_ret) < Len(f_packets)
    /\ LET r == handle_packet(WithReportId(f_packets[Len(f_ret) + 1], f_id),
                              f_buf, HID_REPORT_COMMAND)
       IN  /\ f_buf' = r.buf
           /\ f_ret' = Append(f_ret, r.done)
    /\ UNCHANGED <<f_cmd, f_packets, f_id>>
    /\ UNCHANGED <<avars, svars, kvars, pvars, tvars, rvars>>

FramingNext == FeedReport

SpecFraming == FramingInit /\ [][FramingNext]_vars

(***************************************************************************)
(* Framing claims, checked under SpecFraming.                              *)
(***************************************************************************)
\* the payload slice bytes[3 : 3 + bytes[2]] of a report
PayloadSlice(packet) == SubSeq(packet, 4, 3 + packet[3])

RECURSIVE ConcatPayloads(_)
ConcatPayloads(ps) ==
    IF ps = <<>> THEN <<>>
    ELSE PayloadSlice(Head(ps)) \o ConcatPayloads(Tail(ps))

AllFed == Len(f_ret) = Len(f_packets)

\* completion is reported on the last report of f_packets and on no other
CompletesOnLast == \A i \in 1..Len(f_ret) : f_ret[i] = (i = Len(f_packets))

\* C1 as stated: the reports exactly as make_send_packets produced them
\* (byte 0 = 5), fed in order to handle_packet with an empty buffer and the
\* command-channel report kind, complete exactly on the last report and
\* leave the buffer equal to the command.
C1_RoundTripAsProduced ==
    (f_id = HID_REPORT_OUT /\ AllFed) => (CompletesOnLast /\ f_buf = f_cmd)

\* C1 amended: the round trip holds once byte 0 of each report is the
\* command-channel report id 6 (completion exactly on the last report, the
\* buffer then equal to the command byte for byte); fed with byte 0 = 5 as
\* produced, no report completes and the buffer stays empty.
C1_RoundTrip ==
    /\ f_id = HID_REPORT_COMMAND =>
          /\ CompletesOnLast
          /\ AllFed => f_buf = f_cmd
    /\ f_id = HID_REPORT_OUT =>
          /\ \A i \in 1..Len(f_ret) : ~f_ret[i]
          /\ f_buf = <<>>

C1_Witness ==
    /\ f_id = HID_REPORT_COMMAND
    /\ Len(f_cmd) = 122
    /\ Len(f_ret) = 2
    /\ f_ret[2]
    /\ f_buf = f_cmd

\* C2: make_send_packets returns max(1, ceil(n / 61)) reports for a command
\* of n bytes, and the payload slices of the reports, concatenated in order,
\* are the command; the empty command gives one report of declared length 0.
C2_CountAndPayload ==
    LET n == Len(f_cmd)
        ceil == (n + MAX_CHUNK - 1) \div MAX_CHUNK
    IN  /\ Len(f_packets) = (IF ceil < 1 THEN 1 ELSE ceil)
        /\ ConcatPayloads(f_packets) = f_cmd
        /\ n = 0 => (Len(f_packets) = 1 /\ f_packets[1][3] = 0)

C2_Witness ==
    /\ Len(f_cmd) = 122
    /\ Len(f_packets) = 2
    /\ f_cmd[62] # f_cmd[1]
    /\ ConcatPayloads(f_packets) = f_cmd

\* C3: the start flag 0x04 is set on the first report and no other, the end
\* flag 0x01 on the last report and no other; a single report carries both.
C3_StartEndFlags ==
    \A i \in 1..Len(f_packets) :
        /\ HasFlag(f_packets[i][2], PACKET_FLAG_START_OF_COMMAND) <=> i = 1
        /\ HasFlag(f_packets[i][2], PACKET_FLAG_END_OF_COMMAND)
              <=> i = Len(f_packets)

C3_Witness ==
    /\ Len(f_cmd) = 122
    /\ Len(f_packets) = 2
    /\ f_packets[1][2] = PACKET_FLAG_START_OF_COMMAND
    /\ f_packets[2][2] = PACKET_FLAG_END_OF_COMMAND

\* C4: every report has exactly 64 entries, its length byte is within 0..61
\* and is the number of command bytes the report carries, and every entry
\* after the payload is zero.
C4_ReportShape ==
    \A i \in 1..Len(f_packets) :
        LET p == f_packets[i]
            carried == Min(Len(f_cmd) - MAX_CHUNK * (i - 1), MAX_CHUNK)
        IN  /\ Len(p) = REPORT_SIZE
            /\ p[3] \in 0..MAX_CHUNK
            /\ p[3] = carried
            /\ SubSeq(p, 4, 3 + p[3])
                  = SubSeq(f_cmd, MAX_CHUNK * (i - 1) + 1,
                           MAX_CHUNK * (i - 1) + carried)
            /\ \A j \in (4 + p[3])..Len(p) : p[j] = 0

C4_Witness ==
    /\ Len(f_cmd) = 62
    /\ Len(f_packets) = 2
    /\ f_packets[1][3] = 61
    /\ f_packets[2][3] = 1
    /\ f_packets[2][4] # 0
    /\ f_packets[2][5] = 0

(***************************************************************************)
(* The assembler on its own: handle_packet applied to reports of every     *)
(* shape a read can return (empty, short, full; any report id, flag byte   *)
(* and length byte), starting from the empty buffer.                       *)
(***************************************************************************)
TestIds == {HID_REPORT_INPUT, HID_REPORT_OUT, HID_REPORT_COMMAND}

\* flag bytes: every combination of start, end and host-command-finished,
\* and the device-info bit with and without start/end
TestFlags == {0, 1, 2, 3, 4, 5, 6, 7, 128, 133}

TestLenBytes == {0, 2, 61, 62}

TestSizes == {0, 2, 5, REPORT_SIZE}

\* a full report whose bytes after the header differ from report to report
TestReport(id, flags, len) ==
    [j \in 1..REPORT_SIZE |->
        IF j = 1 THEN id
        ELSE IF j = 2 THEN flags
        ELSE IF j = 3 THEN len
        ELSE (17 * flags + 5 * len + j) % 256]

TestReports ==
    {SubSeq(TestReport(id, fl, len), 1, n) :
        id \in TestIds, fl \in TestFlags, len \in TestLenBytes, n \in TestSizes}

AssemblerInit ==
    /\ a_rid \in {HID_REPORT_INPUT, HID_REPORT_COMMAND}
    /\ a_buf = <<>>
    /\ a_packet = <<>>
    /\ a_before = <<>>
    /\ a_ret = NoResult
    /\ a_n = 0
    /\ FramingOff
    /\ SessionOff
    /\ CodecOff
    /\ ApiOff
    /\ StageOff
    /\ RelayOff

\* one handle_packet call on the buffer; a call that raised ends the caller
HandleReport(packet) ==
    /\ a_n < MaxFeeds
    /\ ~a_ret.raised
    /\ LET r == handle_packet(packet, a_buf, a_rid)
       IN  /\ a_ret' = r
           /\ a_buf' = r.buf
    /\ a_packet' = packet
    /\ a_before' = a_buf
    /\ a_n' = a_n + 1
    /\ UNCHANGED a_rid
    /\ UNCHANGED <<fvars, svars, kvars, pvars, tvars, rvars>>

AssemblerNext == \E packet \in TestReports : HandleReport(packet)

SpecAssembler == AssemblerInit /\ [][AssemblerNext]_vars

(***************************************************************************)
(* Assembler claims, checked under SpecAssembler.                          *)
(***************************************************************************)
\* the last call was for the command channel and got a command report that
\* holds its three header bytes
CommandReportHandled ==
    /\ a_n > 0
    /\ a_rid = HID_REPORT_COMMAND
    /\ Len(a_packet) >= 3
    /\ a_packet[1] = HID_REPORT_COMMAND

\* C6: a command-channel report whose declared payload length exceeds the
\* report's remaining capacity (3 + length > report size) is answered 'not
\* complete' and leaves the buffer exactly as it was, whatever its flags.
C6_OversizedIgnored ==
    (CommandReportHandled /\ 3 + a_packet[3] > Len(a_packet)) =>
        (~a_ret.done /\ ~a_ret.raised /\ a_buf = a_before)

C6_Witness ==
    /\ CommandReportHandled
    /\ Len(a_packet) = REPORT_SIZE
    /\ a_packet[3] = 62
    /\ a_packet[2] = 5
    /\ a_before # <<>>
    /\ a_buf = a_before

\* C7: a well-formed start-flagged command report that arrives while the
\* buffer is non-empty leaves the buffer holding exactly that report's
\* payload slice: its length is the report's declared length, not the sum
\* with the earlier data.
C7_StartResets ==
    (/\ CommandReportHandled
     /\ 3 + a_packet[3] <= Len(a_packet)
     /\ HasFlag(a_packet[2], PACKET_FLAG_START_OF_COMMAND)
     /\ a_before # <<>>) =>
        /\ a_buf = SubSeq(a_packet, 4, 3 + a_packet[3])
        /\ Len(a_buf) = a_packet[3]

C7_Witness ==
    /\ CommandReportHandled
    /\ Len(a_before) = 61
    /\ a_packet[2] = PACKET_FLAG_START_OF_COMMAND
    /\ a_packet[3] = 2
    /\ Len(a_buf) = 2
    /\ a_buf = <<a_packet[4], a_packet[5]>>

\* bit i of a value that is not negative
BitOf(value, i) == (value \div 2 ^ i) % 2

\* the report with the host-command-finished and device-info bits of its
\* flags byte cleared
WithoutInfoFlags(packet) ==
    IF Len(packet) < 2
    THEN packet
    ELSE [packet EXCEPT ![2] =
             @ - PACKET_FLAG_HOST_CMD_FINISHED * BitOf(@, 1)
               - PACKET_FLAG_DEVICE_INFO * BitOf(@, 7)]

InputReportHandled ==
    /\ a_n > 0
    /\ a_rid = HID_REPORT_INPUT
    /\ Len(a_packet) >= 3
    /\ a_packet[1] = HID_REPORT_INPUT

\* C30: asked for the input channel and given an input report, handle_packet
\* reports completion and appends exactly 9 booleans to the buffer, the i-th
\* (0..8) being bit i of the little-endian 16-bit value of bytes 1 and 2;
\* bits 9 to 15 have no effect.
C30_InputStates ==
    InputReportHandled =>
        /\ a_ret.done
        /\ ~a_ret.raised
        /\ Len(a_buf) = Len(a_before) + 9
        /\ SubSeq(a_buf, 1, Len(a_before)) = a_before
        /\ \A i \in 0..8 :
              a_buf[Len(a_before) + i + 1]
                 = (BitOf(a_packet[2] + 256 * a_packet[3], i) = 1)

\* a second input report: byte 1 = 5 sets panels 0 and 2, byte 2 = 61 sets
\* panel 8 and bits 10 to 13
C30_Witness ==
    /\ InputReportHandled
    /\ a_n = 2
    /\ Len(a_before) = 9
    /\ a_packet[2] = 5
    /\ a_packet[3] = 61
    /\ SubSeq(a_buf, 10, 18)
          = <<TRUE, FALSE, TRUE, FALSE, FALSE, FALSE, FALSE, FALSE, TRUE>>

\* the last report handled was empty, carried another report id than the
\* caller waits for, or was a command report without its three header bytes
NotForCaller ==
    /\ a_n > 0
    /\ \/ a_packet = <<>>
       \/ a_packet[1] # a_rid
       \/ (a_rid = HID_REPORT_COMMAND /\ Len(a_packet) < 3)

\* C38: handle_packet leaves the assembly buffer unchanged and reports 'not
\* complete' for every report that is empty, whose report id differs from
\* the report kind the caller waits for, or that is a command report shorter
\* than 3 bytes.
C38_BufferUntouched ==
    NotForCaller =>
        /\ ~a_ret.done
        /\ ~a_ret.raised
        /\ a_buf = a_before

\* a full, well-formed, end-flagged input-channel report read while a
\* command response is being assembled
C38_Witness ==
    /\ NotForCaller
    /\ a_rid = HID_REPORT_COMMAND
    /\ Len(a_packet) = REPORT_SIZE
    /\ a_packet[1] = HID_REPORT_INPUT
    /\ a_packet[2] = 5
    /\ a_packet[3] = 2
    /\ a_before # <<>>
    /\ a_buf = a_before

(***************************************************************************)
(* The device session: SMXStage.send_command (api.py:104-114) calling      *)
(* send_packets (packets.py:173-217) on one SMXHID.  One action per step   *)
(* of send_packets; the device, the handle and the clock are the           *)
(* environment.                                                            *)
(***************************************************************************)
\* api.py:225-232: the set-light-strip command, 3 + 44 * 3 bytes
LightStripCmd ==
    <<76, 0, 44>> \o [i \in 1..132 |-> <<10, 20, 30>>[((i - 1) % 3) + 1]]

\* the calls the API makes: get_inputs (api.py:209), get_device_info
\* (api.py:249), force_recalibration (api.py:203), set light strip (api.py:234)
SessionCalls ==
    { [cmd |-> <<>>, acknowledge |-> FALSE, report_id |-> HID_REPORT_INPUT],
      [cmd |-> <<GET_DEVICE_INFO>>, acknowledge |-> FALSE,
       report_id |-> HID_REPORT_COMMAND],
      [cmd |-> <<67>>, acknowledge |-> TRUE, report_id |-> HID_REPORT_COMMAND],
      [cmd |-> LightStripCmd, acknowledge |-> TRUE,
       report_id |-> HID_REPORT_COMMAND] }

\* the reports of a response payload as the device frames them: the framing
\* of make_send_packets under the command-channel report id
DeviceReports(payload) ==
    LET ps == make_send_packets(payload)
    IN  [i \in 1..Len(ps) |-> WithReportId(ps[i], HID_REPORT_COMMAND)]

\* what the device may answer: an acknowledgement, a one-report payload or a
\* two-report payload
DeviceResponses ==
    { <<ACK_PACKET>>,
      DeviceReports(<<105, 0, 1>>),
      DeviceReports(CmdOf(62, 1)) }

\* what the device may answer to the device-info request: "I", a size, the
\* player, a filler, the serial number, the firmware version and "\n"
InfoResponse(player, serial, firmware_version) ==
    <<73, 0, player, 0>> \o serial
        \o <<firmware_version % 256, firmware_version \div 256, 10>>

\* packets.py:134-137: the response to a device-info request, which any
\* application can send; its one report carries the device-info flag
DeviceInfoReport ==
    LET report == DeviceReports(InfoResponse(0, CmdOf(16, 1), 5))[1]
    IN  [report EXCEPT ![2] = @ + PACKET_FLAG_DEVICE_INFO]

\* the input report the device sends on its own: panels 0, 2 and 8 pressed
DeviceInputs == { <<HID_REPORT_INPUT, 5, 1>> }

Tagged(owner, reports) ==
    [i \in 1..Len(reports) |-> [owner |-> owner, data |-> reports[i]]]

\* packets.py:217: bytes(current_packet); the input states are Python bools
ToBytes(list, rid) ==
    IF rid = HID_REPORT_INPUT
    THEN [i \in 1..Len(list) |-> IF list[i] THEN 1 ELSE 0]
    ELSE list

\* the buffer carried over from the call before
FreshBuffer_Kept(old) == old

\* packets.py:179: every call starts with a new, empty buffer
FreshBuffer(old) == <<>>

\* the handle left as it is when the call ends
CloseDevice_Leak(open) == open

\* packets.py:64-67: the finally of SMXHID.open closes the handle
CloseDevice(open) == FALSE

\* every report written, the empty one too
ShouldWrite_Always(packet) == TRUE

\* packets.py:185
ShouldWrite(packet) == packet # EMPTY_PACKET

\* the for loop left one report early
LoopDone_Early(i, ps) == i >= Len(ps) - 1

\* packets.py:184: the for loop has gone through every report
LoopDone(i, ps) == i = Len(ps)

\* a loop that never gives up
TimedOut_Never(time, start) == FALSE

\* packets.py:195
TimedOut(time, start) == time - start >= s_to_ns(TIMEOUT_S)

\* the acknowledgement pattern taken as an acknowledgement whether or not
\* one was asked for
Acknowledged_Unasked(ack, raw_data) == raw_data = ACK_PACKET

\* packets.py:208
Acknowledged(ack, raw_data) == ack /\ raw_data = ACK_PACKET

SessionInit ==
    /\ SessionOff
    /\ FramingOff
    /\ AssemblerOff
    /\ CodecOff
    /\ ApiOff
    /\ StageOff
    /\ RelayOff

\* the call ends: returned or raised, the handle closed on the way out
Finish(kind, result) ==
    /\ pc' = "idle"
    /\ outcomes' = Append(outcomes, kind)
    /\ response' = result
    /\ dev_open' = CloseDevice(dev_open)

\* api.py:113-114 and packets.py:179-181
Call(c) ==
    /\ pc = "idle"
    /\ calls < MaxCalls
    /\ now + s_to_ns(TIMEOUT_S) <= MaxNow
    /\ calls' = calls + 1
    /\ packets' = make_send_packets(c.cmd)
    /\ acknowledge' = c.acknowledge
    /\ report_id' = c.report_id
    /\ current_packet' = FreshBuffer(current_packet)
    /\ current_time' = now
    /\ widx' = 1
    /\ written' = <<>>
    /\ has_read' = FALSE
    /\ rx' = <<>>
    /\ last_rx' = NoRx
    /\ pc' = "open"
    /\ UNCHANGED <<now, dev_open, outcomes, response, abandoned, awaiting,
                   pending>>
    /\ UNCHANGED <<fvars, avars, kvars, pvars, tvars, rvars>>

\* packets.py:183 (SMXHID.open, packets.py:57-62): the handle opens, or
\* _device gives up and SMXStageHIDError leaves the call; a handle that is
\* still open cannot be opened again
OpenDevice ==
    /\ pc = "open"
    /\ \E ok \in BOOLEAN :
          IF ok /\ ~dev_open
          THEN /\ dev_open' = TRUE
               /\ pc' = "write"
               /\ UNCHANGED <<outcomes, response>>
          ELSE /\ pc' = "idle"
               /\ outcomes' = Append(outcomes, "hid_error")
               /\ UNCHANGED <<dev_open, response>>
    /\ UNCHANGED <<packets, acknowledge, report_id, widx, current_packet,
                   current_time, now, calls, written, has_read, rx, last_rx,
                   abandoned, awaiting, pending>>
    /\ UNCHANGED <<fvars, avars, kvars, pvars, tvars, rvars>>

\* packets.py:184-189: one iteration of the for loop; the device has a
\* command to answer once the end-flagged report is written
WritePacket ==
    /\ pc = "write"
    /\ LET packet == packets[widx]
           next == /\ widx' = widx + 1
                   /\ pc' = IF LoopDone(widx, packets) THEN "wait" ELSE "write"
                   /\ UNCHANGED <<dev_open, outcomes, response>>
       IN  IF ShouldWrite(packet)
           THEN \E count \in {Len(packet), -1} :
                   IF count = Len(packet)
                   THEN /\ written' = Append(written, packet)
                        /\ awaiting' = IF EndOfCommand(packet[2])
                                       THEN Append(awaiting, calls)
                                       ELSE awaiting
                        /\ next
                   ELSE /\ Finish("assert", response)
                        /\ UNCHANGED <<widx, written, awaiting>>
           ELSE /\ next
                /\ UNCHANGED <<written, awaiting>>
    /\ UNCHANGED <<packets, acknowledge, report_id, current_packet,
                   current_time, now, calls, has_read, rx, last_rx, abandoned,
                   pending>>
    /\ UNCHANGED <<fvars, avars, kvars, pvars, tvars, rvars>>

\* packets.py:195-197: the deadline has passed when the loop comes round
Timeout ==
    /\ pc = "wait"
    /\ TimedOut(now, current_time)
    /\ Finish("timeout", response)
    /\ abandoned' = current_packet
    /\ UNCHANGED <<packets, acknowledge, report_id, widx, current_packet,
                   current_time, now, calls, written, has_read, rx, last_rx,
                   awaiting, pending>>
    /\ UNCHANGED <<fvars, avars, kvars, pvars, tvars, rvars>>

\* packets.py:200-202: the read returns nothing and the loop continues
ReadEmpty ==
    /\ pc = "wait"
    /\ ~TimedOut(now, current_time)
    /\ has_read' = TRUE
    /\ UNCHANGED <<pc, packets, acknowledge, report_id, widx, current_packet,
                   current_time, now, dev_open, calls, outcomes, response,
                   written, rx, last_rx, abandoned, awaiting, pending>>
    /\ UNCHANGED <<fvars, avars, kvars, pvars, tvars, rvars>>

\* packets.py:200-217: the read returns the next report the device delivers
ReadReport ==
    /\ pc = "wait"
    /\ ~TimedOut(now, current_time)
    /\ pending # <<>>
    /\ Len(rx) < MaxReads
    /\ LET raw_data == Head(pending).data
           r == handle_packet(raw_data, current_packet, report_id)
           acked == Acknowledged(acknowledge, raw_data)
           ended == acked \/ r.done \/ r.raised
       IN  /\ rx' = Append(rx, raw_data)
           /\ last_rx' = [owner |-> Head(pending).owner, data |-> raw_data,
                          before |-> current_packet, ended |-> ended]
           /\ IF acked
              THEN /\ Finish("ack", ToBytes(current_packet, report_id))
                   /\ UNCHANGED current_packet
              ELSE IF r.raised
              THEN /\ Finish("index_error", response)
                   /\ UNCHANGED current_packet
              ELSE IF r.done
              THEN /\ Finish("payload", ToBytes(r.buf, report_id))
                   /\ current_packet' = r.buf
              ELSE /\ current_packet' = r.buf
                   /\ UNCHANGED <<pc, outcomes, response, dev_open>>
    /\ pending' = Tail(pending)
    /\ has_read' = TRUE
    /\ UNCHANGED <<packets, acknowledge, report_id, widx, current_time, now,
                   calls, written, abandoned, awaiting>>
    /\ UNCHANGED <<fvars, avars, kvars, pvars, tvars, rvars>>

\* the device answers the oldest command it has received
DeviceRespond ==
    /\ awaiting # <<>>
    /\ \E reports \in DeviceResponses :
          /\ Len(pending) + Len(reports) <= MaxPending
          /\ pending' = pending \o Tagged(Head(awaiting), reports)
    /\ awaiting' = Tail(awaiting)
    /\ UNCHANGED <<pc, packets, acknowledge, report_id, widx, current_packet,
                   current_time, now, dev_open, calls, outcomes, response,
                   written, has_read, rx, last_rx, abandoned>>
    /\ UNCHANGED <<fvars, avars, kvars, pvars, tvars, rvars>>

\* the device reports a panel change while the host listens
DeviceInput ==
    /\ pc = "wait"
    /\ Len(pending) < MaxPending
    /\ \E report \in DeviceInputs :
          pending' = Append(pending, [owner |-> 0, data |-> report])
    /\ UNCHANGED <<pc, packets, acknowledge, report_id, widx, current_packet,
                   current_time, now, dev_open, calls, outcomes, response,
                   written, has_read, rx, last_rx, abandoned, awaiting>>
    /\ UNCHANGED <<fvars, avars, kvars, pvars, tvars, rvars>>

\* time passes while a call is in progress
Tick ==
    /\ pc # "idle"
    /\ now < MaxNow
    /\ now' = now + TickMs
    /\ UNCHANGED <<pc, packets, acknowledge, report_id, widx, current_packet,
                   current_time, dev_open, calls, outcomes, response, written,
                   has_read, rx, last_rx, abandoned, awaiting, pending>>
    /\ UNCHANGED <<fvars, avars, kvars, pvars, tvars, rvars>>

SessionNext ==
    \/ \E c \in SessionCalls : Call(c)
    \/ OpenDevice
    \/ WritePacket
    \/ Timeout
    \/ ReadEmpty
    \/ ReadReport
    \/ DeviceRespond
    \/ DeviceInput
    \/ Tick

Spec == SessionInit /\ [][SessionNext]_vars

\* the device answers the device-info request of another program while this
\* caller listens
DeviceInfoArrives ==
    /\ pc = "wait"
    /\ Len(pending) < MaxPending
    /\ pending' = Append(pending, [owner |-> 0, data |-> DeviceInfoReport])
    /\ UNCHANGED <<pc, packets, acknowledge, report_id, widx, current_packet,
                   current_time, now, dev_open, calls, outcomes, response,
                   written, has_read, rx, last_rx, abandoned, awaiting>>
    /\ UNCHANGED <<fvars, avars, kvars, pvars, tvars, rvars>>

SharedNext ==
    \/ \E c \in SessionCalls : Call(c)
    \/ OpenDevice
    \/ WritePacket
    \/ Timeout
    \/ ReadEmpty
    \/ ReadReport
    \/ DeviceRespond
    \/ DeviceInput
    \/ DeviceInfoArrives
    \/ Tick

\* the session on a stage that another application talks to as well
SpecShared == SessionInit /\ [][SharedNext]_vars

\* The steps of send_packets follow one another without waiting: the handle
\* is opened non-blocking (packets.py:58-61), so neither the for loop nor the
\* while loop of packets.py:184-217 can stall, and the monotonic clock moves
\* on while a call is in progress.
SpecLive ==
    /\ Spec
    /\ WF_vars(OpenDevice)
    /\ WF_vars(WritePacket)
    /\ WF_vars(Timeout)
    /\ WF_vars(Tick)

(***************************************************************************)
(* Session claims, checked under Spec.                                     *)
(***************************************************************************)
LastOutcome == IF outcomes = <<>> THEN "none" ELSE outcomes[Len(outcomes)]

\* C5 as stated: for every command, the empty one included, every report
\* make_send_packets produced has been written, in order, by the time
\* send_packets first reads.
C5_AllReportsWritten == has_read => written = packets

\* C5 amended: before its first read send_packets has written, in order,
\* every report make_send_packets produced for a non-empty command; for the
\* empty command, whose only report equals EMPTY_PACKET, it writes nothing.
C5_NonEmptyReportsWritten ==
    has_read =>
        /\ packets # <<EMPTY_PACKET>> => written = packets
        /\ packets = <<EMPTY_PACKET>> => written = <<>>

C5_Witness ==
    /\ pc = "wait"
    /\ has_read
    /\ Len(packets) = 3
    /\ written = packets

\* a command report handle_packet assembles
WellFormed(packet) ==
    /\ Len(packet) >= 3
    /\ packet[1] = HID_REPORT_COMMAND
    /\ 3 + packet[3] <= Len(packet)

\* C8: once an end-flagged report has finalized a command nothing more is
\* assembled onto its bytes: the buffer is empty whenever a call has not yet
\* assembled a report, and a completed payload is the concatenation of the
\* payload slices of the reports the call read from some report on.
C8_PayloadFromOwnReports ==
    /\ (pc \in {"open", "write"} \/ (pc = "wait" /\ rx = <<>>))
          => current_packet = <<>>
    /\ (pc = "idle" /\ LastOutcome = "payload"
            /\ report_id = HID_REPORT_COMMAND)
          => \E k \in 1..Len(rx) :
                response = ConcatPayloads(
                               SelectSeq(SubSeq(rx, k, Len(rx)), WellFormed))

C8_Witness ==
    /\ pc = "idle"
    /\ outcomes = <<"payload", "payload">>
    /\ last_rx.owner = 2
    /\ Len(rx) = 2
    /\ response = CmdOf(62, 1)

\* C9: after a send_packets call ended with the timeout error the handle is
\* closed, so the device can be opened again, and the next call starts with
\* an empty assembly buffer whatever the timed-out call had assembled.
C9_CleanAfterTimeout ==
    /\ (pc = "idle" /\ LastOutcome = "timeout") => ~dev_open
    /\ (pc # "idle" /\ LastOutcome = "timeout" /\ rx = <<>>)
          => current_packet = <<>>

C9_Witness ==
    /\ calls = 2
    /\ outcomes = <<"timeout">>
    /\ abandoned # <<>>
    /\ pc = "wait"
    /\ dev_open
    /\ has_read
    /\ current_packet = <<>>

\* C10: a report that answers a command whose call timed out, read by a
\* later call, is ignored: it neither changes the later call's buffer nor
\* ends the later call's wait.
C10_LateReportsIgnored ==
    (/\ last_rx.owner \in 1..(calls - 1)
     /\ outcomes[last_rx.owner] = "timeout")
        => (~last_rx.ended /\ current_packet = last_rx.before)

(***************************************************************************)
(* Termination of send_packets, checked under SpecLive.                    *)
(***************************************************************************)
ThreeWays == {"payload", "ack", "timeout"}

C11_ExitsAsCoded ==
    (pc = "idle" /\ calls > 0) =>
        /\ Len(outcomes) = calls
        /\ LastOutcome \in ThreeWays \cup {"hid_error", "assert"}
        /\ LastOutcome = "hid_error" => (written = <<>> /\ ~has_read)
        /\ LastOutcome = "assert" => ~has_read
        /\ LastOutcome = "timeout" => TimedOut(now, current_time)
        /\ LastOutcome \in {"payload", "ack"} =>
              (rx # <<>> /\ ~TimedOut(now, current_time))

C25_OneOutstanding ==
    /\ [](pc = "wait" => widx = Len(packets) + 1)
    /\ [](has_read => pc \in {"wait", "idle"})
    /\ [][written' # written /\ written' # <<>>
            => /\ pc = "write"
               /\ ~has_read
               /\ ~has_read'
               /\ Len(outcomes) = calls - 1]_vars

\* the three reports of the second command are written after the first
\* command's wait ended, and the second call is reading
C25_Witness ==
    /\ calls = 2
    /\ Len(outcomes) = 1
    /\ pc = "wait"
    /\ Len(written) = 3
    /\ has_read

\* C26: the handle opened by send_packets is closed again on every exit of
\* the call (payload returned, acknowledgement, timeout error, failed write
\* assertion), so no handle is open between two send/wait cycles.
C26_HandleClosed == pc \in {"idle", "open"} => ~dev_open

\* a call that returned a payload and a call that left on a failed write
C26_Witness ==
    /\ pc = "idle"
    /\ outcomes = <<"payload", "assert">>
    /\ written # <<>>
    /\ ~dev_open

\* the last report read was the acknowledgement pattern
AckRead == last_rx.data = ACK_PACKET

\* C29 as stated: the acknowledgement pattern ends the wait as an
\* acknowledgement only when acknowledge is set; with acknowledge unset a
\* report equal to the pattern does not end the wait.
C29_AckOnlyWhenAsked ==
    AckRead =>
        /\ (last_rx.ended /\ LastOutcome = "ack") => acknowledge
        /\ ~acknowledge => ~last_rx.ended

\* C29 amended: with acknowledge set the pattern ends the wait as an
\* acknowledgement and what was assembled so far is returned; with
\* acknowledge unset it is handled like any other report: on the command
\* channel its start and end flags and zero length end the wait with an
\* empty payload, on the input channel it is skipped and the wait goes on.
C29_AckPattern ==
    AckRead =>
        /\ acknowledge =>
              /\ last_rx.ended
              /\ pc = "idle"
              /\ LastOutcome = "ack"
              /\ response = ToBytes(last_rx.before, report_id)
        /\ (~acknowledge /\ report_id = HID_REPORT_COMMAND) =>
              /\ last_rx.ended
              /\ pc = "idle"
              /\ LastOutcome = "payload"
              /\ response = <<>>
        /\ (~acknowledge /\ report_id = HID_REPORT_INPUT) =>
              /\ ~last_rx.ended
              /\ current_packet = last_rx.before
              /\ (pc = "idle" => LastOutcome = "timeout")

\* a command sent without acknowledge is answered by the pattern and returns
\* an empty payload
C29_Witness ==
    /\ AckRead
    /\ ~acknowledge
    /\ report_id = HID_REPORT_COMMAND
    /\ last_rx.owner = calls
    /\ last_rx.ended
    /\ LastOutcome = "payload"
    /\ response = <<>>

\* the command of the call is the device-info request
InfoRequested ==
    /\ Len(packets) = 1
    /\ packets[1][3] = 1
    /\ packets[1][4] = GET_DEVICE_INFO

\* the last report read carries the device-info flag
InfoRead ==
    /\ Len(last_rx.data) >= 3
    /\ last_rx.data[1] = HID_REPORT_COMMAND
    /\ HasFlag(last_rx.data[2], PACKET_FLAG_DEVICE_INFO)

(***************************************************************************)
(* Device-info responses nobody here asked for, checked under SpecShared.  *)
(***************************************************************************)
\* C28 as stated: a device-info response report that arrives while a command
\* other than a device-info request awaits its response is ignored by that
\* caller: it does not end the wait, is not returned and does not become
\* part of the command's response.
C28_InfoIgnored ==
    (InfoRead /\ ~InfoRequested) =>
        /\ ~last_rx.ended
        /\ current_packet = last_rx.before

\* what the code does with it on the command channel: the report is
\* assembled like any other and, being end-flagged, its payload is what the
\* call returns
InfoReturned ==
    (InfoRead /\ report_id = HID_REPORT_COMMAND) =>
        /\ last_rx.ended
        /\ LastOutcome = "payload"
        /\ response = SubSeq(last_rx.data, 4, 3 + last_rx.data[3])

(***************************************************************************)
(* The codecs: SMXStageConfig.from_packed_bytes (config.py), its callers   *)
(* in SMXStage (api.py:48-91) and SMXDeviceInfo.from_bytes                 *)
(* (device_info.py).  A struct format is the sequence of its item codes,   *)
(* repeat counts written out; all formats here are little-endian and       *)
(* unaligned ("<").                                                        *)
(***************************************************************************)
Rep(n, code) == [i \in 1..n |-> code]

\* struct: "B", "c" and "?" take one byte, "H" and "h" two
ItemSize(code) == IF code \in {"H", "h"} THEN 2 ELSE 1

\* the bytes the first n items of a format take
SizeOfItems(fmt, n) ==
    Cardinality({ jb \in (1..n) \X (1..2) : jb[2] <= ItemSize(fmt[jb[1]]) })

calcsize(fmt) == SizeOfItems(fmt, Len(fmt))

\* the 16-bit value read as two's complement
Signed16(value) == IF value >= 32768 THEN value - 65536 ELSE value

\* struct.unpack of one item: "B" an int, "H" a little-endian int, "h" the
\* same signed, "c" a bytes object of length 1, "?" a bool
UnpackItem(code, data, at) ==
    IF code = "H" THEN data[at + 1] + 256 * data[at + 2]
    ELSE IF code = "h" THEN Signed16(data[at + 1] + 256 * data[at + 2])
    ELSE IF code = "c" THEN <<data[at + 1]>>
    ELSE IF code = "?" THEN data[at + 1] # 0
    ELSE data[at + 1]

\* a buffer longer than the format accepted as well
LengthMatches_AtLeast(fmt, data) == Len(data) >= calcsize(fmt)

\* struct.unpack requires a buffer of exactly calcsize(fmt) bytes
LengthMatches(fmt, data) == Len(data) = calcsize(fmt)

\* struct.unpack(fmt, data): the values, or struct.error
struct_unpack(fmt, data) ==
    IF ~LengthMatches(fmt, data)
    THEN [raised |-> "struct.error", values |-> <<>>]
    ELSE [raised |-> "",
          values |-> [i \in 1..Len(fmt) |->
                         UnpackItem(fmt[i], data, SizeOfItems(fmt, i - 1))]]

\* config.py:24-33, without the "<"
SENSOR_STRUCT_FMT ==
    <<"B", "B">> \o Rep(4, "B") \o Rep(4, "B") \o <<"H", "H", "H">>

\* the fsr thresholds taken one value late
from_unpacked_values_Shifted(data) ==
    [load_cell_low_threshold |-> data[1],
     load_cell_high_threshold |-> data[2],
     fsr_low_threshold |-> Slice(data, 3, 7),
     fsr_high_threshold |-> Slice(data, 7, 11),
     combined_low_threshold |-> data[11],
     combined_high_threshold |-> data[12],
     reserved |-> data[13]]

\* config.py:36-62
from_unpacked_values(data) ==
    [load_cell_low_threshold |-> data[1],
     load_cell_high_threshold |-> data[2],
     fsr_low_threshold |-> Slice(data, 2, 6),
     fsr_high_threshold |-> Slice(data, 6, 10),
     combined_low_threshold |-> data[11],
     combined_high_threshold |-> data[12],
     reserved |-> data[13]]

RECURSIVE Times(_, _)
Times(n, fmt) == IF n = 0 THEN <<>> ELSE fmt \o Times(n - 1, fmt)

\* the format with panelDebounceMicroseconds and autoCalibrationMaxDeviation
\* in each other's place
STRUCT_FMT_Swapped ==
    <<"B", "B", "B", "H", "H", "B", "H", "B", "H", "H", "H">>
        \o Rep(5, "B") \o <<"B">> \o Rep(27, "B") \o Rep(3, "B")
        \o <<"H", "B">>
        \o Times(9, SENSOR_STRUCT_FMT)
        \o <<"B">> \o Rep(49, "B")

\* config.py:151-177
STRUCT_FMT ==
    <<"B", "B", "B", "H", "H", "H", "B", "B", "H", "H", "H">>
        \o Rep(5, "B") \o <<"B">> \o Rep(27, "B") \o Rep(3, "B")
        \o <<"H", "B">>
        \o Times(9, SENSOR_STRUCT_FMT)
        \o <<"B">> \o Rep(49, "B")

\* config.py:64-139: SMXStageConfig()
DefaultConfig ==
    [master_version |-> 255,
     config_version |-> 5,
     flags |-> 0,
     debounce_no_delay_milliseconds |-> 0,
     debounce_delay_milliseconds |-> 0,
     panel_debounce_microseconds |-> 4000,
     auto_calibration_max_deviation |-> 100,
     bad_sensor_minimum_delay_seconds |-> 15,
     auto_calibration_averages_per_update |-> 60,
     auto_calibration_samples_per_average |-> 500,
     auto_calibration_max_tare |-> 65535,
     enabled_sensors |-> <<>>,
     auto_lights_timeout |-> 1000 \div 128,
     step_color |-> <<>>,
     platform_strip_color |-> <<>>,
     auto_light_panel_mask |-> 65535,
     panel_rotation |-> 0,
     panel_settings |-> <<>>,
     pre_details_delay_milliseconds |-> 5,
     padding |-> <<>>]

\* config.py:180-251
from_packed_bytes(data) ==
    LET u == struct_unpack(STRUCT_FMT, data)
        unpacked == u.values
        sensor_objects == 9
        sensor_value_count == 13
        sensor_items == sensor_value_count * sensor_objects
        sensor_idx == 49
        sensor_end_idx == sensor_idx + sensor_items
        p_sensor_data == Slice(unpacked, sensor_idx, sensor_end_idx)
        packed_sensor_settings ==
            [n \in 1..sensor_objects |->
                from_unpacked_values(
                    Slice(p_sensor_data, (n - 1) * sensor_value_count,
                          (n - 1) * sensor_value_count + sensor_value_count))]
    IN  IF u.raised # ""
        THEN [raised |-> u.raised, value |-> NoObject]
        ELSE [raised |-> "",
              value |->
                [master_version |-> unpacked[1],
                 config_version |-> unpacked[2],
                 flags |-> unpacked[3],
                 debounce_no_delay_milliseconds |-> unpacked[4],
                 debounce_delay_milliseconds |-> unpacked[5],
                 panel_debounce_microseconds |-> unpacked[6],
                 auto_calibration_max_deviation |-> unpacked[7],
                 bad_sensor_minimum_delay_seconds |-> unpacked[8],
                 auto_calibration_averages_per_update |-> unpacked[9],
                 auto_calibration_samples_per_average |-> unpacked[10],
                 auto_calibration_max_tare |-> unpacked[11],
                 enabled_sensors |-> Slice(unpacked, 11, 16),
                 auto_lights_timeout |-> unpacked[17],
                 step_color |-> Slice(unpacked, 17, 44),
                 platform_strip_color |-> Slice(unpacked, 44, 47),
                 auto_light_panel_mask |-> unpacked[48],
                 panel_rotation |-> unpacked[49],
                 panel_settings |-> packed_sensor_settings,
                 pre_details_delay_milliseconds |-> unpacked[167],
                 padding |-> Slice(unpacked, 167, 216)]]

\* api.py:89: SMXStageConfig (config.py:64-251) and its instances have no
\* attribute to_packed_bytes, so the call raises AttributeError
to_packed_bytes(config) == [raised |-> "AttributeError", value |-> NoObject]

\* api.py:50-52: the command for the firmware version
GetConfigCmd(firmware_version) ==
    IF firmware_version >= 5 THEN GET_CONFIG_V5 ELSE GET_CONFIG

\* api.py:48-71, data being what send_command returned
api_get_stage_config(data, firmware_version) ==
    LET cmd == GetConfigCmd(firmware_version)
        data_len == Len(data)
    IN  IF data_len < 1
        THEN [raised |-> "IndexError", value |-> NoObject]
        ELSE IF data[1] # cmd
        THEN [raised |-> "AssertionError", value |-> NoObject]
        ELSE IF data_len < 2
        THEN [raised |-> "IndexError", value |-> NoObject]
        ELSE LET payload_size == data[2]
             IN  IF data_len < 2 \/ data_len < payload_size + 2
                 THEN [raised |-> "", value |-> DefaultConfig]
                 ELSE from_packed_bytes(Slice(data, 2, payload_size + 2))

\* device_info.py:21-30, without the "<"
INFO_STRUCT_FMT ==
    <<"c", "B", "c", "c">> \o Rep(16, "B") \o <<"H", "c">>

\* the byte taken for its own value
PyInt_ByteValue(b) == [raised |-> "", value |-> b[1]]

\* int() of a bytes object of length 1: the value of the decimal digit it
\* spells in ASCII, or ValueError
PyInt(b) ==
    IF b[1] \in 48..57
    THEN [raised |-> "", value |-> b[1] - 48]
    ELSE [raised |-> "ValueError", value |-> 0]

HexDigits ==
    <<"0", "1", "2", "3", "4", "5", "6", "7", "8", "9",
      "A", "B", "C", "D", "E", "F">>

\* device_info.py:40: f"{x:02X}" for every byte, joined
RECURSIVE HexJoin(_)
HexJoin(bytes) ==
    IF bytes = <<>>
    THEN <<>>
    ELSE <<HexDigits[(Head(bytes) \div 16) + 1],
           HexDigits[(Head(bytes) % 16) + 1]>> \o HexJoin(Tail(bytes))

\* device_info.py:33-46
from_bytes(data) ==
    LET u == struct_unpack(INFO_STRUCT_FMT, data)
        unpacked == u.values
        p == PyInt(unpacked[3])
    IN  IF u.raised # ""
        THEN [raised |-> u.raised, value |-> NoObject]
        ELSE IF p.raised # ""
        THEN [raised |-> p.raised, value |-> NoObject]
        ELSE [raised |-> "",
              value |-> [serial |-> HexJoin(Slice(unpacked, 4, 20)),
                         firmware_version |-> unpacked[21],
                         player |-> p.value + 1]]

(***************************************************************************)
(* The sensor test data: SMXAPI.get_sensor_test_data (api.py:150-196) on   *)
(* the response of send_command, SMXDetailData.from_packed_bytes and       *)
(* SMXSensorTestData.from_detail_data (sensors.py).                        *)
(***************************************************************************)
\* Python's & and | on ints that are not negative
RECURSIVE BitAnd(_, _)
BitAnd(a, b) ==
    IF a = 0 \/ b = 0
    THEN 0
    ELSE (a % 2) * (b % 2) + 2 * BitAnd(a \div 2, b \div 2)

RECURSIVE BitOr(_, _)
BitOr(a, b) ==
    IF a = 0 THEN b
    ELSE IF b = 0 THEN a
    ELSE (IF (a % 2) + (b % 2) > 0 THEN 1 ELSE 0)
            + 2 * BitOr(a \div 2, b \div 2)

ShiftLeft(a, n) == a * 2 ^ n

ShiftRight(a, n) == a \div 2 ^ n

\* api.py:166-169: the 16-bit items, data[2] of them
sensor_items(data) ==
    [n \in 1..data[3] |->
        BitOr(ShiftLeft(data[2 * n + 3], 8), data[2 * n + 2])]

\* api.py:182-188: the loop over the 8 bits of one output byte
RECURSIVE out_result(_, _, _, _, _)
out_result(items, panel, idx, bit, result) ==
    IF bit = 8
    THEN result
    ELSE LET new_bit == BitAnd(items[idx + 1], ShiftLeft(1, panel))
         IN  out_result(items, panel, idx + 1, bit + 1,
                        BitOr(result, ShiftLeft(new_bit, bit)))

\* the result appended as it is
out_byte_Unshifted(items, panel, idx) == out_result(items, panel, idx, 0, 0)

\* api.py:182-192: the output byte made of items idx .. idx + 7
out_byte(items, panel, idx) ==
    ShiftRight(out_result(items, panel, idx, 0, 0), panel)

\* api.py:174-192: the 10 output bytes of a panel
out_bytes(items, panel) ==
    [k \in 1..10 |-> out_byte(items, panel, 8 * (k - 1))]

\* sensors.py:71-77, without the "<"
DETAIL_STRUCT_FMT ==
    Rep(8, "?") \o Rep(4, "h") \o <<"B">> \o Rep(4, "?")

BitByte(value, i) == IF BitAnd(value, ShiftLeft(1, i)) # 0 THEN 1 ELSE 0

\* sensors.py:80-137: SMXDetailData.from_packed_bytes
detail_from_packed_bytes(data) ==
    LET new_data == [i \in 1..8 |-> BitByte(data[1], i - 1)]
                       \o SubSeq(data, 2, 9)
                       \o <<BitAnd(data[10], 15)>>
                       \o [i \in 1..4 |-> BitByte(data[10], i + 3)]
        unpacked == struct_unpack(DETAIL_STRUCT_FMT, new_data).values
    IN  [sig1 |-> unpacked[1],
         sig2 |-> unpacked[2],
         sig3 |-> unpacked[3],
         bad_sensor_0 |-> unpacked[4],
         bad_sensor_1 |-> unpacked[5],
         bad_sensor_2 |-> unpacked[6],
         bad_sensor_3 |-> unpacked[7],
         dummy |-> unpacked[8],
         sensors |-> Slice(unpacked, 8, 12),
         dip |-> unpacked[13],
         bad_sensor_dip_0 |-> unpacked[14],
         bad_sensor_dip_1 |-> unpacked[15],
         bad_sensor_dip_2 |-> unpacked[16],
         bad_sensor_dip_3 |-> unpacked[17]]

\* every panel taken to have answered
HasSignature_Any(pad) == TRUE

\* sensors.py:177: the header is 0 1 0
HasSignature(pad) ==
    ~(pad.sig1 # FALSE \/ pad.sig2 # TRUE \/ pad.sig3 # FALSE)

\* sensors.py:172-198: the loop over the panels; a panel without the header
\* gets its have_data_from_panel entry and nothing else
RECURSIVE from_detail_data_loop(_, _, _)
from_detail_data_loop(data, panel, lists) ==
    IF panel = 9
    THEN lists
    ELSE LET pad == data[panel + 1]
         IN  IF ~HasSignature(pad)
             THEN from_detail_data_loop(data, panel + 1,
                     [lists EXCEPT !.have_data_from_panel = Append(@, FALSE)])
             ELSE from_detail_data_loop(data, panel + 1,
                     [have_data_from_panel |->
                          Append(lists.have_data_from_panel, TRUE),
                      bad_sensor_input |->
                          Append(lists.bad_sensor_input,
                                 <<pad.bad_sensor_0, pad.bad_sensor_1,
                                   pad.bad_sensor_2, pad.bad_sensor_3>>),
                      dip_switch_per_panel |->
                          Append(lists.dip_switch_per_panel, pad.dip),
                      bad_jumper |->
                          Append(lists.bad_jumper,
                                 <<pad.bad_sensor_dip_0, pad.bad_sensor_dip_1,
                                   pad.bad_sensor_dip_2, pad.bad_sensor_dip_3>>),
                      sensor_level |->
                          Append(lists.sensor_level, pad.sensors)])

\* sensors.py:164-206
from_detail_data(data) ==
    from_detail_data_loop(data, 0,
        [have_data_from_panel |-> <<>>,
         sensor_level |-> <<>>,
         bad_sensor_input |-> <<>>,
         dip_switch_per_panel |-> <<>>,
         bad_jumper |-> <<>>])

\* api.py:150-196, data being what send_command returned; out_bytes is the
\* out_bytes list of every panel, kept beside the result
get_sensor_test_data(data, mode) ==
    LET failed(error) ==
            [raised |-> error, value |-> NoObject, out_bytes |-> <<>>]
        items == sensor_items(data)
        panel_bytes == [p \in 1..9 |-> out_bytes(items, p - 1)]
        panel_data == [p \in 1..9 |-> detail_from_packed_bytes(panel_bytes[p])]
    IN  IF Len(data) < 1 THEN failed("IndexError")
        ELSE IF data[1] # GET_SENSOR_TEST_DATA THEN failed("AssertionError")
        ELSE IF Len(data) < 2 THEN failed("IndexError")
        ELSE IF data[2] # mode THEN failed("AssertionError")
        ELSE IF Len(data) < 3 THEN failed("IndexError")
        ELSE IF Len(data) < 2 * data[3] + 3 THEN failed("IndexError")
        ELSE IF Len(items) < 80 THEN failed("IndexError")
        ELSE IF \E p \in 1..9, k \in 1..10 : panel_bytes[p][k] \notin 0..255
        THEN failed("ValueError")
        ELSE [raised |-> "",
              value |-> from_detail_data(panel_data),
              out_bytes |-> panel_bytes]

(***************************************************************************)
(* The relay's make_send_packets (hid/discovery.py:89-121).  Its flags     *)
(* are those of discovery.py:19-22, which carry the names and values of    *)
(* packets.py:13-16.  The loop is followed for MaxLoops more iterations    *)
(* after the first; a loop that has not left by then is reported so.       *)
(***************************************************************************)
\* discovery.py:95-113: one report
relay_packet(cmd, idx, packet_size) ==
    LET flags ==
            (IF idx = 0 THEN PACKET_FLAG_START_OF_COMMAND ELSE 0)
               + (IF idx + packet_size = Len(cmd)
                  THEN PACKET_FLAG_END_OF_COMMAND ELSE 0)
        head == <<5, flags, packet_size>>
                    \o SubSeq(cmd, idx + 1, idx + packet_size)
    IN  head \o [i \in 1..(64 - Len(head)) |-> 0]

\* discovery.py:118: `idx := idx + packet_size >= cmd_len` binds idx to the
\* comparison, True or False, which as ints are 1 and 0
relay_next_idx(idx, packet_size, cmd_len) ==
    IF idx + packet_size >= cmd_len THEN 1 ELSE 0

\* discovery.py:94-119: the while loop
RECURSIVE relay_make_send_packets_loop(_, _, _, _)
relay_make_send_packets_loop(cmd, idx, built, more) ==
    LET packet_size == Min(Len(cmd) - idx, 61)
        built2 == Append(built, relay_packet(cmd, idx, packet_size))
        idx2 == relay_next_idx(idx, packet_size, Len(cmd))
    IN  IF idx2 # 0
        THEN [returned |-> TRUE, packets |-> built2]
        ELSE IF more = 0
        THEN [returned |-> FALSE, packets |-> built2]
        ELSE relay_make_send_packets_loop(cmd, idx2, built2, more - 1)

\* discovery.py:89-121
relay_make_send_packets(cmd) ==
    LET r == relay_make_send_packets_loop(cmd, 0, <<>>, MaxLoops)
    IN  [raised |-> "", value |-> NoObject,
         returned |-> r.returned, packets |-> r.packets]

(***************************************************************************)
(* SMXHID._device (packets.py:34-55); opens[n] tells whether the n-th      *)
(* d.open of the call succeeds.                                            *)
(***************************************************************************)
\* the try counted whether or not the device was opened
TryCount_Always(connected, try_count) == try_count + 1

\* packets.py:49: `connected or (try_count := try_count + 1) == retries`
\* counts the try only when the open failed
TryCount(connected, try_count) ==
    IF connected THEN try_count ELSE try_count + 1

\* packets.py:42-50: the while loop
RECURSIVE device_loop(_, _, _)
device_loop(opens, try_count, attempts) ==
    LET connected == opens[attempts + 1]
        try_count2 == TryCount(connected, try_count)
    IN  IF connected \/ try_count2 = HID_RETRIES
        THEN [connected |-> connected, try_count |-> try_count2,
              attempts |-> attempts + 1]
        ELSE device_loop(opens, try_count2, attempts + 1)

\* packets.py:34-55
device(opens) ==
    LET r == device_loop(opens, 0, 0)
    IN  [raised |-> IF r.try_count = HID_RETRIES
                    THEN "SMXStageHIDError" ELSE "",
         value |-> NoObject,
         attempts |-> r.attempts,
         handle |-> r.try_count # HID_RETRIES /\ r.connected]

(***************************************************************************)
(* SpecCodec: one operation of the codecs applied to one buffer.           *)
(***************************************************************************)
\* 250-byte records whose neighbouring bytes all differ
Records == { CmdOf(250, seed) : seed \in 0..MaxSeed }

\* the defaults of config.py:64-139 laid out by STRUCT_FMT
ReferenceRecord ==
    [i \in 1..250 |->
        CASE i = 1 -> 255
          [] i = 2 -> 5
          [] i = 8 -> 160
          [] i = 9 -> 15
          [] i = 10 -> 100
          [] i = 11 -> 15
          [] i = 12 -> 60
          [] i = 14 -> 244
          [] i = 15 -> 1
          [] i \in {16, 17} -> 255
          [] i = 23 -> 7
          [] i \in {54, 55} -> 255
          [] i = 201 -> 5
          [] OTHER -> 0]

AllRecords == Records \cup {ReferenceRecord}

\* buffers handed to from_packed_bytes: records, and records one byte short
\* or long
DecodeInputs ==
    UNION { { r, Slice(r, 0, 249), r \o <<10>> } : r \in AllRecords }
        \cup { <<>> }

FirmwareVersions == {4, 5}

\* what send_command may return to _api_get_stage_config: the echoed
\* command, the declared size, the record and the trailing "\n"; the same
\* cut short, with another size or another echo; and next to nothing
GetConfigResponses(cmd) ==
    UNION { { <<cmd, 250>> \o r \o <<10>>,
              <<cmd, 250>> \o r,
              <<cmd, 250>> \o Slice(r, 0, 100),
              <<cmd, 100>> \o r,
              <<cmd, 249>> \o r,
              <<cmd + 1, 250>> \o r \o <<10>>,
              <<cmd + 1, 250>> \o Slice(r, 0, 100) } : r \in AllRecords }
        \cup { <<>>, <<cmd>>, <<cmd + 1>>, <<cmd, 0>>, <<cmd, 5>> }

PlayerBytes == {0, 1, 48, 49, 50, 57, 255}

InfoResponses ==
    UNION { { InfoResponse(p, Slice(r, 0, 16), 4),
              InfoResponse(p, Slice(r, 16, 32), 261),
              Slice(InfoResponse(p, Slice(r, 0, 16), 5), 0, 22) }
            : p \in PlayerBytes, r \in Records }

SensorTestModes == {48, 49}

\* which panels answer
AnsweringSets ==
    { 0..8, {}, 1..8, {0}, {4, 5}, {1, 3, 5, 7}, (0..8) \ {4} }

\* the 10-byte record of panel p: the header 0 1 0 in the low bits of the
\* first byte if it answers, another header if not
PanelRecord(seed, answering, p) ==
    [k \in 1..10 |->
        IF k = 1
        THEN (IF p \in answering
              THEN 2
              ELSE <<0, 1, 3, 4, 5, 6, 7>>[((seed + p) % 7) + 1])
                 + 8 * ((seed + 3 * p) % 32)
        ELSE (13 * seed + 29 * p + 7 * k) % 256]

RECURSIVE PanelBits(_, _, _, _, _)
PanelBits(seed, answering, k, b, p) ==
    IF p = 9
    THEN 0
    ELSE ((PanelRecord(seed, answering, p)[k + 1] \div 2 ^ b) % 2) * 2 ^ p
            + PanelBits(seed, answering, k, b, p + 1)

\* the n items the stage sends: bit p of item 8k+b is bit b of byte k of
\* panel p's record, bits 9 to 15 are whatever they are
SensorWords(seed, answering, n) ==
    [w \in 1..n |->
        IF w > 80
        THEN 65535
        ELSE PanelBits(seed, answering, (w - 1) \div 8, (w - 1) % 8, 0)
                + 512 * ((seed + w) % 128)]

\* what send_command may return to get_sensor_test_data: "y", the mode, the
\* number of items and the items, low byte first
SensorResponse(cmd, mode, words) ==
    <<cmd, mode, Len(words)>>
        \o [i \in 1..(2 * Len(words)) |->
               IF i % 2 = 1
               THEN words[(i + 1) \div 2] % 256
               ELSE words[i \div 2] \div 256]

SensorResponses(mode) ==
    { SensorResponse(GET_SENSOR_TEST_DATA, mode, SensorWords(seed, a, 80)) :
        seed \in 0..MaxSeed, a \in AnsweringSets }
      \cup UNION {
        { SensorResponse(GET_SENSOR_TEST_DATA, mode,
                         SensorWords(seed, 0..8, 81)),
          SensorResponse(GET_SENSOR_TEST_DATA, mode,
                         SensorWords(seed, 0..8, 79)),
          SensorResponse(GET_SENSOR_TEST_DATA, mode,
                         SensorWords(seed, 0..8, 80)) \o <<10>>,
          SensorResponse(GET_SENSOR_TEST_DATA, mode + 1,
                         SensorWords(seed, 0..8, 80)),
          SensorResponse(GET_CONFIG, mode, SensorWords(seed, 0..8, 80)),
          Slice(SensorResponse(GET_SENSOR_TEST_DATA, mode,
                               SensorWords(seed, 0..8, 80)), 0, 100) }
        : seed \in 0..MaxSeed }
      \cup { <<>>, <<GET_SENSOR_TEST_DATA>>, <<GET_SENSOR_TEST_DATA, mode>> }

\* commands given to the relay's make_send_packets: around one and two
\* full chunks
RelayCmds ==
    { CmdOf(n, seed) :
        n \in {0, 1, 60, 61, 62, 122, MaxCmdLen}, seed \in CmdSeeds }

\* how the d.open calls of one _device call may go, a fourth included
DeviceOpens == [1..(HID_RETRIES + 1) -> BOOLEAN]

CodecInit ==
    /\ \/ /\ k_op = "from_packed_bytes"
          /\ k_in \in DecodeInputs
          /\ k_fw = 0
          /\ k_mode = 0
       \/ /\ k_op = "to_packed_bytes"
          /\ k_in \in AllRecords
          /\ k_fw = 0
          /\ k_mode = 0
       \/ /\ k_op = "get_stage_config"
          /\ k_fw \in FirmwareVersions
          /\ k_in \in GetConfigResponses(GetConfigCmd(k_fw))
          /\ k_mode = 0
       \/ /\ k_op = "from_bytes"
          /\ k_in \in InfoResponses
          /\ k_fw = 0
          /\ k_mode = 0
       \/ /\ k_op = "get_sensor_test_data"
          /\ k_mode \in SensorTestModes
          /\ k_in \in SensorResponses(k_mode)
          /\ k_fw = 0
       \/ /\ k_op = "relay_make_send_packets"
          /\ k_in \in RelayCmds
          /\ k_fw = 0
          /\ k_mode = 0
       \/ /\ k_op = "_device"
          /\ k_in \in DeviceOpens
          /\ k_fw = 0
          /\ k_mode = 0
    /\ k_out = NoOut
    /\ k_done = FALSE
    /\ FramingOff
    /\ AssemblerOff
    /\ SessionOff
    /\ ApiOff
    /\ StageOff
    /\ RelayOff

Ran(out) ==
    /\ ~k_done
    /\ k_done' = TRUE
    /\ k_out' = out
    /\ UNCHANGED <<k_op, k_in, k_fw, k_mode>>
    /\ UNCHANGED <<fvars, avars, svars, pvars, tvars, rvars>>

\* config.py:180: SMXStageConfig.from_packed_bytes(data)
Decode ==
    /\ k_op = "from_packed_bytes"
    /\ Ran(from_packed_bytes(k_in))

\* api.py:89 on a configuration that from_packed_bytes produced
Encode ==
    /\ k_op = "to_packed_bytes"
    /\ LET c == from_packed_bytes(k_in)
       IN  Ran(IF c.raised # "" THEN c ELSE to_packed_bytes(c.value))

\* api.py:48: SMXStage._api_get_stage_config()
GetStageConfig ==
    /\ k_op = "get_stage_config"
    /\ Ran(api_get_stage_config(k_in, k_fw))

\* device_info.py:33: SMXDeviceInfo.from_bytes(data)
DeviceInfo ==
    /\ k_op = "from_bytes"
    /\ Ran(from_bytes(k_in))

\* api.py:150: SMXAPI.get_sensor_test_data(player, mode)
GetSensorTestData ==
    /\ k_op = "get_sensor_test_data"
    /\ Ran(get_sensor_test_data(k_in, k_mode))

\* discovery.py:165: make_send_packets(cmd) in write_usb
RelayMakeSendPackets ==
    /\ k_op = "relay_make_send_packets"
    /\ Ran(relay_make_send_packets(k_in))

\* packets.py:59: d = self._device()
OpenAttempts ==
    /\ k_op = "_device"
    /\ Ran(device(k_in))

CodecNext ==
    \/ Decode
    \/ Encode
    \/ GetStageConfig
    \/ DeviceInfo
    \/ GetSensorTestData
    \/ RelayMakeSendPackets
    \/ OpenAttempts

SpecCodec == CodecInit /\ [][CodecNext]_vars

(***************************************************************************)
(* Codec claims, checked under SpecCodec.                                  *)
(***************************************************************************)
GetConfigDone == k_op = "get_stage_config" /\ k_done

\* the response is shorter than 2 bytes or than its declared size plus 2
ShortResponse(data) == Len(data) < 2 \/ Len(data) < data[2] + 2

\* C15: _api_get_stage_config returns a default-initialized SMXStageConfig
\* and raises nothing whenever the response is shorter than 2 bytes, the
\* empty one included, or shorter than its declared payload size plus 2.
C15_ShortResponseDefault ==
    (GetConfigDone /\ ShortResponse(k_in)) =>
        (k_out.raised = "" /\ k_out.value = DefaultConfig)

\* C16: for every 250-byte record b, to_packed_bytes of from_packed_bytes(b)
\* yields b exactly, padding and reserved fields included.
C16_RoundTrip ==
    (k_op = "to_packed_bytes" /\ k_done /\ Len(k_in) = 250) =>
        (k_out.raised = "" /\ k_out.value = k_in)

\* the record read directly: one byte, a little-endian pair, a run of bytes
\* (offsets count from 0)
ByteAt(b, at) == b[at + 1]

WordAt(b, at) == b[at + 1] + 256 * b[at + 2]

BytesAt(b, first, last) == [i \in 1..(last - first + 1) |-> b[first + i]]

Decoded == k_op = "from_packed_bytes" /\ k_done /\ Len(k_in) = 250

ScalarFields ==
    {"master_version", "config_version", "flags",
     "debounce_no_delay_milliseconds", "debounce_delay_milliseconds",
     "panel_debounce_microseconds", "auto_calibration_max_deviation",
     "bad_sensor_minimum_delay_seconds",
     "auto_calibration_averages_per_update",
     "auto_calibration_samples_per_average", "auto_calibration_max_tare",
     "auto_lights_timeout", "auto_light_panel_mask", "panel_rotation",
     "pre_details_delay_milliseconds"}

\* C17: from_packed_bytes reads every field outside the panel settings from
\* its fixed little-endian offset of the 250-byte record, and the record of
\* the documented defaults decodes to the documented default values.
C17_FieldOffsets ==
    Decoded =>
        /\ k_out.raised = ""
        /\ LET c == k_out.value
               b == k_in
           IN  /\ c.master_version = ByteAt(b, 0)
               /\ c.config_version = ByteAt(b, 1)
               /\ c.flags = ByteAt(b, 2)
               /\ c.debounce_no_delay_milliseconds = WordAt(b, 3)
               /\ c.debounce_delay_milliseconds = WordAt(b, 5)
               /\ c.panel_debounce_microseconds = WordAt(b, 7)
               /\ c.auto_calibration_max_deviation = ByteAt(b, 9)
               /\ c.bad_sensor_minimum_delay_seconds = ByteAt(b, 10)
               /\ c.auto_calibration_averages_per_update = WordAt(b, 11)
               /\ c.auto_calibration_samples_per_average = WordAt(b, 13)
               /\ c.auto_calibration_max_tare = WordAt(b, 15)
               /\ c.enabled_sensors = BytesAt(b, 17, 21)
               /\ c.auto_lights_timeout = ByteAt(b, 22)
               /\ c.step_color = BytesAt(b, 23, 49)
               /\ c.platform_strip_color = BytesAt(b, 50, 52)
               /\ c.auto_light_panel_mask = WordAt(b, 53)
               /\ c.panel_rotation = ByteAt(b, 55)
               /\ c.pre_details_delay_milliseconds = ByteAt(b, 200)
               /\ c.padding = BytesAt(b, 201, 249)
               /\ b = ReferenceRecord =>
                     \A f \in ScalarFields : c[f] = DefaultConfig[f]

C17_Witness ==
    /\ Decoded
    /\ k_in = ReferenceRecord
    /\ k_out.raised = ""
    /\ k_out.value.panel_debounce_microseconds = 4000
    /\ k_out.value.auto_calibration_max_tare = 65535
    /\ Len(k_out.value.padding) = 49

\* C18: from_packed_bytes always yields exactly 9 panel settings, panel k
\* (0..8) built from unpacked values 49+13k .. 49+13k+12, which are record
\* bytes 56+16k .. 56+16k+15: two 8-bit load-cell thresholds, four 8-bit FSR
\* low and four 8-bit FSR high thresholds, then little-endian 16-bit combined
\* low, combined high and reserved.
C18_PanelSettings ==
    Decoded =>
        /\ k_out.raised = ""
        /\ Len(k_out.value.panel_settings) = 9
        /\ \A k \in 0..8 :
              LET panel == k_out.value.panel_settings[k + 1]
                  at == 56 + 16 * k
                  unpacked == struct_unpack(STRUCT_FMT, k_in).values
              IN  /\ panel.load_cell_low_threshold = ByteAt(k_in, at)
                  /\ panel.load_cell_high_threshold = ByteAt(k_in, at + 1)
                  /\ panel.fsr_low_threshold = BytesAt(k_in, at + 2, at + 5)
                  /\ panel.fsr_high_threshold = BytesAt(k_in, at + 6, at + 9)
                  /\ panel.combined_low_threshold = WordAt(k_in, at + 10)
                  /\ panel.combined_high_threshold = WordAt(k_in, at + 12)
                  /\ panel.reserved = WordAt(k_in, at + 14)
                  /\ <<panel.load_cell_low_threshold,
                       panel.load_cell_high_threshold>>
                        \o panel.fsr_low_threshold \o panel.fsr_high_threshold
                        \o <<panel.combined_low_threshold,
                             panel.combined_high_threshold, panel.reserved>>
                       = SubSeq(unpacked, 49 + 13 * k + 1, 49 + 13 * k + 13)

\* a record whose last panel has a reserved field above 255
C18_Witness ==
    /\ Decoded
    /\ k_out.raised = ""
    /\ Len(k_out.value.panel_settings) = 9
    /\ k_out.value.panel_settings[9].reserved = WordAt(k_in, 198)
    /\ k_out.value.panel_settings[9].reserved > 255
    /\ k_out.value.panel_settings[1].load_cell_low_threshold = k_in[57]

Failed(out) == out.raised # "" /\ out.value = NoObject

\* C19 as stated: decoding a record whose length is not exactly 250 bytes
\* fails with an error and yields no configuration object, and so does a
\* get-config response whose declared payload size differs from 250.
C19_WrongSizeFails ==
    /\ (k_op = "from_packed_bytes" /\ k_done /\ Len(k_in) # 250)
          => Failed(k_out)
    /\ (GetConfigDone /\ Len(k_in) >= 2 /\ k_in[2] # 250)
          => Failed(k_out)

\* C19 amended: from_packed_bytes raises struct.error and yields no object
\* for a record whose length is not exactly 250 bytes.  A get-config
\* response that declares a payload size other than 250 never yields a
\* configuration decoded from it: it fails with struct.error when it echoes
\* the command and holds at least the declared size plus 2 bytes, and yields
\* the default configuration, raising nothing, when it echoes the command
\* and is shorter than that.
C19_WrongSize ==
    /\ (k_op = "from_packed_bytes" /\ k_done /\ Len(k_in) # 250)
          => (Failed(k_out) /\ k_out.raised = "struct.error")
    /\ (GetConfigDone /\ Len(k_in) >= 2 /\ k_in[2] # 250)
          => IF k_in[1] # GetConfigCmd(k_fw)
             THEN Failed(k_out)
             ELSE IF Len(k_in) >= k_in[2] + 2
             THEN Failed(k_out) /\ k_out.raised = "struct.error"
             ELSE k_out.raised = "" /\ k_out.value = DefaultConfig

\* a response declaring 100 bytes and holding them
C19_Witness ==
    /\ GetConfigDone
    /\ Len(k_in) = 252
    /\ k_in[1] = GetConfigCmd(k_fw)
    /\ k_in[2] = 100
    /\ k_out.raised = "struct.error"
    /\ k_out.value = NoObject

InfoDecoded == k_op = "from_bytes" /\ k_done /\ Len(k_in) = 23

\* C20 as stated: from_bytes on a 23-byte identity response exposes
\* player = wire player value + 1: player byte 0 yields player 1 and player
\* byte 1 yields player 2.
C20_PlayerPlusOne ==
    (InfoDecoded /\ k_in[3] \in {0, 1}) =>
        (k_out.raised = "" /\ k_out.value.player = k_in[3] + 1)

\* C20 amended: the player byte of a 23-byte identity response is read as
\* an ASCII decimal digit and player is that digit plus 1: the byte "0"
\* (0x30) yields player 1 and the byte "1" (0x31) yields player 2.  A player
\* byte that is no ASCII digit, the values 0 and 1 among them, makes
\* from_bytes raise ValueError and yield no object.
C20_PlayerFromDigit ==
    InfoDecoded =>
        IF k_in[3] \in 48..57
        THEN /\ k_out.raised = ""
             /\ k_out.value.player = (k_in[3] - 48) + 1
             /\ k_in[3] = 48 => k_out.value.player = 1
             /\ k_in[3] = 49 => k_out.value.player = 2
        ELSE /\ k_out.raised = "ValueError"
             /\ k_out.value = NoObject

\* the response of a second player's stage with firmware 261
C20_Witness ==
    /\ InfoDecoded
    /\ k_in[3] = 49
    /\ k_out.raised = ""
    /\ k_out.value.player = 2
    /\ k_out.value.firmware_version = 261
    /\ Len(k_out.value.serial) = 32

SensorDone == k_op = "get_sensor_test_data" /\ k_done

SensorRan == SensorDone /\ k_out.raised = ""

\* the response echoes the command and the mode and holds the words it
\* announces
SensorWellFormed ==
    /\ Len(k_in) >= 3
    /\ k_in[1] = GET_SENSOR_TEST_DATA
    /\ k_in[2] = k_mode
    /\ Len(k_in) >= 2 * k_in[3] + 3

\* C21: in get_sensor_test_data, for every panel p in 0..8 and every k in
\* 0..9, bit b of output byte k of panel p equals bit p of the 16-bit input
\* word 8k+b and every output byte lies in 0..255; the first 80 words are all
\* consumed (a response with fewer gives no output) and no later word is.
C21_BitTransposition ==
    /\ (SensorDone /\ SensorWellFormed /\ k_in[3] >= 80) => SensorRan
    /\ SensorRan =>
          /\ SensorWellFormed
          /\ k_in[3] >= 80
          /\ \A p \in 0..8, k \in 0..9 :
                LET byte == k_out.out_bytes[p + 1][k + 1]
                IN  /\ byte \in 0..255
                    /\ \A b \in 0..7 :
                          BitOf(byte, b)
                             = BitOf(WordAt(k_in, 3 + 2 * (8 * k + b)), p)
    /\ (SensorDone /\ SensorWellFormed /\ k_in[3] < 80)
          => k_out.raised = "IndexError"

\* a response of 81 words with bits set above bit 8 has been transposed into
\* records that differ from panel to panel
C21_Witness ==
    /\ SensorRan
    /\ k_in[3] = 81
    /\ WordAt(k_in, 3) >= 512
    /\ k_out.out_bytes[1] # k_out.out_bytes[2]
    /\ k_out.out_bytes[9][10] # 0

\* the 10-byte record of panel p as get_sensor_test_data rebuilt it
RecordOf(p) == k_out.out_bytes[p + 1]

\* C22: from_detail_data returns have_data_from_panel with exactly 9
\* entries, entry p being true if and only if bits 0, 1, 2 of the first byte
\* of panel p's 10-byte record are 0, 1, 0, whatever the other bits are.
C22_HaveDataFromPanel ==
    SensorRan =>
       /\ Len(k_out.value.have_data_from_panel) = 9
       /\ \A p \in 0..8 :
             k_out.value.have_data_from_panel[p + 1]
                = (/\ BitOf(RecordOf(p)[1], 0) = 0
                   /\ BitOf(RecordOf(p)[1], 1) = 1
                   /\ BitOf(RecordOf(p)[1], 2) = 0)

\* panels 4 and 5 alone carry the header; two panels without it differ in
\* their first byte
C22_Witness ==
    /\ SensorRan
    /\ k_out.value.have_data_from_panel
          = <<FALSE, FALSE, FALSE, FALSE, TRUE, TRUE, FALSE, FALSE, FALSE>>
    /\ RecordOf(0)[1] # RecordOf(1)[1]
    /\ RecordOf(4)[1] # RecordOf(5)[1]

\* the four signed 16-bit levels in bytes 1 to 8 of a record
LevelsOf(record) ==
    [i \in 1..4 |->
        LET w == record[2 * i] + 256 * record[2 * i + 1]
        IN  IF w >= 32768 THEN w - 65536 ELSE w]

\* bits first .. first + 3 of a byte as booleans
FlagsOf(byte, first) == [i \in 1..4 |-> BitOf(byte, first + i - 1) = 1]

\* C23 as stated: sensor_level, bad_sensor_input, dip_switch_per_panel and
\* bad_jumper each hold 9 entries, entry n belonging to panel n: the panel's
\* decoded data if it is present, an absent or zero entry if it is not.
C23_OneEntryPerPanel ==
    SensorRan =>
       LET v == k_out.value
       IN  /\ Len(v.sensor_level) = 9
           /\ Len(v.bad_sensor_input) = 9
           /\ Len(v.dip_switch_per_panel) = 9
           /\ Len(v.bad_jumper) = 9
           /\ \A p \in 0..8 :
                 IF v.have_data_from_panel[p + 1]
                 THEN /\ v.sensor_level[p + 1] = LevelsOf(RecordOf(p))
                      /\ v.bad_sensor_input[p + 1]
                            = FlagsOf(RecordOf(p)[1], 3)
                      /\ v.dip_switch_per_panel[p + 1]
                            = RecordOf(p)[10] % 16
                      /\ v.bad_jumper[p + 1] = FlagsOf(RecordOf(p)[10], 4)
                 ELSE /\ v.sensor_level[p + 1] \in {<<>>, <<0, 0, 0, 0>>}
                      /\ v.bad_sensor_input[p + 1]
                            \in {<<>>, <<FALSE, FALSE, FALSE, FALSE>>}
                      /\ v.dip_switch_per_panel[p + 1] = 0
                      /\ v.bad_jumper[p + 1]
                            \in {<<>>, <<FALSE, FALSE, FALSE, FALSE>>}

\* what the code does keep: each list holds the decoded data of the present
\* panels in panel order and nothing for the others
PresentPanelsOnly ==
    SensorRan =>
       LET v == k_out.value
           present == { p \in 0..8 : v.have_data_from_panel[p + 1] }
           rank(p) == Cardinality({ q \in present : q <= p })
       IN  /\ Len(v.sensor_level) = Cardinality(present)
           /\ Len(v.bad_sensor_input) = Cardinality(present)
           /\ Len(v.dip_switch_per_panel) = Cardinality(present)
           /\ Len(v.bad_jumper) = Cardinality(present)
           /\ \A p \in present :
                 /\ v.sensor_level[rank(p)] = LevelsOf(RecordOf(p))
                 /\ v.bad_sensor_input[rank(p)] = FlagsOf(RecordOf(p)[1], 3)
                 /\ v.dip_switch_per_panel[rank(p)] = RecordOf(p)[10] % 16
                 /\ v.bad_jumper[rank(p)] = FlagsOf(RecordOf(p)[10], 4)

RelayFramed == k_op = "relay_make_send_packets" /\ k_done

\* C32 as stated: the relay's make_send_packets terminates for every command
\* length and returns the same report list as pysmx.sdk.packets
\* make_send_packets, in particular for commands longer than 61 bytes.
C32_SameAsSdk ==
    RelayFramed =>
        /\ k_out.returned
        /\ k_out.packets = make_send_packets(k_in)

\* what the relay's loop does: for a command of at most 61 bytes it returns
\* the one report the SDK builds; for a longer one it never leaves, every
\* iteration appending the first report again
RelayLoop ==
    RelayFramed =>
        IF Len(k_in) <= 61
        THEN /\ k_out.returned
             /\ k_out.packets = make_send_packets(k_in)
        ELSE /\ ~k_out.returned
             /\ Len(k_out.packets) = MaxLoops + 1
             /\ \A i \in 1..Len(k_out.packets) :
                   k_out.packets[i] = make_send_packets(k_in)[1]

DeviceTried == k_op = "_device" /\ k_done

\* the opens of the first three that succeed
Succeeded == { i \in 1..HID_RETRIES : k_in[i] }

\* C33: SMXHID._device attempts to open the device at most 3 times, returns
\* the handle as soon as one attempt succeeds, the third included, and
\* raises SMXStageHIDError if and only if all 3 attempts failed.
C33_ThreeAttempts ==
    DeviceTried =>
        /\ k_out.attempts <= HID_RETRIES
        /\ Succeeded # {} =>
              /\ k_out.raised = ""
              /\ k_out.handle
              /\ k_out.attempts \in Succeeded
              /\ \A i \in Succeeded : k_out.attempts <= i
        /\ Succeeded = {} =>
              /\ k_out.raised = "SMXStageHIDError"
              /\ ~k_out.handle
              /\ k_out.attempts = HID_RETRIES

\* two failed opens, then one that succeeds
C33_Witness ==
    /\ DeviceTried
    /\ k_in = <<FALSE, FALSE, TRUE, FALSE>>
    /\ k_out.raised = ""
    /\ k_out.handle
    /\ k_out.attempts = 3

(***************************************************************************)
(* SpecApi: SMXAPI.write_stage_config (api.py:131-148) called on one       *)
(* SMXAPI while the monotonic clock runs.  TIMERS (api.py:117-124) is one  *)
(* object of the module, created when the module is imported; the clock    *)
(* reads 0 at that moment.                                                 *)
(***************************************************************************)
Players == {1, 2}

\* how far the clock moves between two calls
ApiSteps == {500, 600}

\* every call let through
RateLimitPassed_Always(time, last) == TRUE

\* api.py:138
RateLimitPassed(time, last) == time - last >= s_to_ns(WC_SECONDS)

\* api.py:291-303: the while loop of _get_stage; finds[n] is what the n-th
\* _find_stages of the call registers
RECURSIVE get_stage_loop(_, _, _, _)
get_stage_loop(known, player, try_count, finds) ==
    IF player \in known
    THEN [stages |-> known, try_count |-> try_count]
    ELSE LET found == known \cup finds[try_count + 1]
         IN  IF try_count + 1 = RETRIES
             THEN [stages |-> found, try_count |-> try_count + 1]
             ELSE get_stage_loop(found, player, try_count + 1, finds)

\* api.py:285-310
get_stage(known, player, finds) ==
    LET r == get_stage_loop(known, player, 0, finds)
    IN  [stages |-> r.stages,
         enumerations |-> r.try_count,
         raised |-> r.try_count = RETRIES]

\* api.py:73-91 and, when nothing was raised, api.py:148: the device I/O of
\* the write; the configuration is read from the stage first when none is
\* given and none is held
api_write_stage_config(player, given, held) ==
    LET fetch == ~given /\ player \notin held
        packed == to_packed_bytes(DefaultConfig)
    IN  [io |-> (IF fetch THEN <<"get_config">> ELSE <<>>)
                   \o (IF packed.raised = ""
                       THEN <<"write_config", "get_config">>
                       ELSE <<>>),
         has_config |-> held \cup {player},
         raised |-> packed.raised]

\* the write carried out whatever the rate limit said
ConfigIo_Unchecked(passed, io) == io

\* api.py:138-146: SMXRateLimitError leaves the call before the write
ConfigIo(passed, io) == IF passed THEN io ELSE <<>>

\* the timestamp moved by every call that reaches the check
NextWcTime_Always(passed, time, last) == time

\* api.py:138-139: TIMERS.wc_time = time only when the check passes
NextWcTime(passed, time, last) == IF passed THEN time ELSE last

ApiInit ==
    /\ ApiOff
    /\ StageOff
    /\ RelayOff
    /\ FramingOff
    /\ AssemblerOff
    /\ SessionOff
    /\ CodecOff

\* what the enumerations of a call may register: any stages at all, and
\* nothing where the call does not enumerate
FindsFor(player) ==
    IF player \in stages
    THEN { [n \in 1..RETRIES |-> {}] }
    ELSE [1..RETRIES -> SUBSET Players]

\* api.py:131-148
WriteStageConfig(player, given) ==
    /\ w_n < MaxWrites
    /\ w_n' = w_n + 1
    /\ \E finds \in FindsFor(player) :
          LET g == get_stage(stages, player, finds)
              time == monotonic
              passed == ~g.raised /\ RateLimitPassed(time, wc_time)
              w == api_write_stage_config(player, given, has_config)
          IN  /\ stages' = g.stages
              /\ wc_time' = NextWcTime(passed, time, wc_time)
              /\ has_config' = IF passed THEN w.has_config ELSE has_config
              /\ w_log' =
                    IF passed
                    THEN Append(w_log, [player |-> player, time |-> time])
                    ELSE w_log
              /\ w_last' =
                    [player |-> player,
                     time |-> time,
                     known |-> player \in stages,
                     enumerations |-> g.enumerations,
                     io |-> [i \in 1..g.enumerations |-> "enumerate"]
                               \o ConfigIo(passed, w.io),
                     result |-> IF g.raised THEN "SMXStageNotFoundError"
                                ELSE IF ~passed THEN "SMXRateLimitError"
                                ELSE IF w.raised # "" THEN w.raised
                                ELSE "returned",
                     before |-> w_log]
    /\ UNCHANGED monotonic
    /\ UNCHANGED <<fvars, avars, svars, kvars, tvars, rvars>>

\* time passes between the calls
Advance ==
    /\ monotonic < MaxClock
    /\ \E d \in ApiSteps : monotonic' = monotonic + d
    /\ UNCHANGED <<wc_time, stages, has_config, w_n, w_log, w_last>>
    /\ UNCHANGED <<fvars, avars, svars, kvars, tvars, rvars>>

ApiNext ==
    \/ \E player \in Players, given \in BOOLEAN :
          WriteStageConfig(player, given)
    \/ Advance

SpecApi == ApiInit /\ [][ApiNext]_vars

(***************************************************************************)
(* Rate-limit claims, checked under SpecApi.                               *)
(***************************************************************************)
\* the last call got as far as the rate limit
Checked == w_last.result \notin {"none", "SMXStageNotFoundError"}

Rejected == w_last.result = "SMXRateLimitError"

\* C12: a write_stage_config call is rejected with SMXRateLimitError when
\* less than 1 second has elapsed since the previous accepted write and is
\* accepted otherwise.
C12_RateLimit ==
    Checked =>
        (Rejected <=>
            /\ w_last.before # <<>>
            /\ w_last.time - w_last.before[Len(w_last.before)].time
                  < s_to_ns(WC_SECONDS))

C14_PerDevice ==
    (Rejected /\ w_last.time >= s_to_ns(WC_SECONDS)) =>
        \E i \in 1..Len(w_last.before) :
            /\ w_last.before[i].player = w_last.player
            /\ w_last.time - w_last.before[i].time < s_to_ns(WC_SECONDS)

\* C24 as stated: _get_stage performs no enumeration when the player's stage
\* is already known and at most 3 otherwise, returns the stage whenever one
\* of those enumerations registered it, and raises SMXStageNotFoundError only
\* when the player is still absent from stages after the last enumeration.
C24_GetStage ==
    w_last # NoCall =>
        /\ w_last.known => w_last.enumerations = 0
        /\ w_last.enumerations <= RETRIES
        /\ w_last.result = "SMXStageNotFoundError"
              => w_last.player \notin stages

\* what the loop does: the stage is returned when it was known or registered
\* by the first or second enumeration, and the error is raised exactly when
\* the third enumeration ran, whatever that one registered
RaisedAfterThird ==
    w_last # NoCall =>
        /\ w_last.known => w_last.enumerations = 0
        /\ w_last.enumerations <= RETRIES
        /\ w_last.result = "SMXStageNotFoundError"
              <=> w_last.enumerations = RETRIES
        /\ w_last.enumerations < RETRIES => w_last.player \in stages

\* C37: the rate-limit timestamp changes only when a write_stage_config
\* call passes the rate-limit check: a call that is rejected, or that finds
\* no stage, leaves it unchanged, and an accepted call sets it to the call's
\* time before the configuration is encoded and any report is written, so
\* the window is consumed even if the write then fails.
C37_TimestampFrame ==
    [][/\ wc_time' # wc_time
          => /\ w_n' = w_n + 1
             /\ w_last'.result \in {"returned", "AttributeError"}
       /\ w_n' = w_n + 1
          => wc_time' = IF w_last'.result
                             \in {"SMXRateLimitError", "SMXStageNotFoundError"}
                        THEN wc_time
                        ELSE monotonic]_vars

\* a call rejected 500 ms after an accepted one whose write failed: the
\* timestamp is still the accepted call's time
C37_Witness ==
    /\ Rejected
    /\ w_last.before # <<>>
    /\ wc_time = w_last.before[Len(w_last.before)].time
    /\ wc_time = w_last.time - 500
    /\ wc_time >= s_to_ns(WC_SECONDS)

(***************************************************************************)
(* SpecStage: the configuration cache of one SMXStage (api.py:46, 93-102)  *)
(* under SMXAPI.get_stage_config, the config property, its setter and      *)
(* SMXAPI.factory_reset, for a player whose stage is known.  A             *)
(* configuration is told by its platform_strip_color; a send_command       *)
(* either gets its answer or raises SMXPacketTimeoutError.                 *)
(***************************************************************************)
StripColors == { <<255, 0, 0>>, <<0, 0, 255>> }

Configs == { [platform_strip_color |-> c] : c \in StripColors }

\* the configuration the device holds after a factory reset
FactoryConfig == [platform_strip_color |-> <<10, 20, 30>>]

Sent(cmd, ack) == [cmd |-> cmd, acknowledge |-> ack]

\* api.py:48-71 as seen from the cache: one get-config command, answered
\* with what the device holds
stage_query(fw, dev, ok) ==
    [io |-> <<Sent(<<GetConfigCmd(fw)>>, FALSE)>>,
     raised |-> IF ok THEN "" ELSE "SMXPacketTimeoutError",
     value |-> IF ok THEN dev ELSE NoConfig]

\* the cache never used
UseCache_Never(cached) == FALSE

\* api.py:95: self._config is not None
UseCache(cached) == cached # NoConfig

\* api.py:93-98: the config property
stage_config(fw, cached, dev, ok) ==
    IF UseCache(cached)
    THEN [io |-> <<>>, raised |-> "", value |-> cached, config |-> cached]
    ELSE LET q == stage_query(fw, dev, ok)
         IN  [io |-> q.io, raised |-> q.raised, value |-> q.value,
              config |-> IF q.raised = "" THEN q.value ELSE cached]

\* api.py:236-245: SMXAPI.get_stage_config
get_stage_config(fw, cached, dev, ok) ==
    LET q == stage_query(fw, dev, ok)
    IN  [io |-> q.io, raised |-> q.raised, value |-> q.value,
         config |-> IF q.raised = "" THEN q.value ELSE cached]

\* api.py:223-232: the set-light-strip command for a configuration
light_cmd(config) ==
    <<SET_LIGHT_STRIP, 0, 44>>
        \o [i \in 1..(44 * 3) |-> config.platform_strip_color[((i - 1) % 3) + 1]]

\* api.py:211-234: SMXAPI.factory_reset; oks tells which of its
\* send_command calls get their answer.  Below firmware 5 light_cmd is never
\* bound when api.py:234 reads it.
factory_reset(fw, cached, dev, oks) ==
    LET reset == <<Sent(<<FACTORY_RESET>>, TRUE)>>
        c == stage_config(fw, cached, FactoryConfig, oks[2])
    IN  IF ~oks[1]
        THEN [io |-> reset, raised |-> "SMXPacketTimeoutError",
              config |-> cached, dev |-> dev]
        ELSE IF c.raised # ""
        THEN [io |-> reset \o c.io, raised |-> c.raised,
              config |-> c.config, dev |-> FactoryConfig]
        ELSE IF fw >= 5
        THEN [io |-> reset \o c.io \o <<Sent(light_cmd(c.value), TRUE)>>,
              raised |-> IF oks[3] THEN "" ELSE "SMXPacketTimeoutError",
              config |-> c.config, dev |-> FactoryConfig]
        ELSE [io |-> reset \o c.io, raised |-> "UnboundLocalError",
              config |-> c.config, dev |-> FactoryConfig]

StageInit ==
    /\ t_fw \in FirmwareVersions
    /\ t_config = NoConfig
    /\ t_dev \in Configs
    /\ t_n = 0
    /\ t_last = NoApiCall
    /\ FramingOff
    /\ AssemblerOff
    /\ SessionOff
    /\ CodecOff
    /\ ApiOff
    /\ RelayOff

Called(op, r) ==
    /\ t_n < MaxOps
    /\ t_n' = t_n + 1
    /\ t_config' = r.config
    /\ t_last' = [op |-> op, raised |-> r.raised, value |-> r.value,
                  before |-> t_config, io |-> r.io]
    /\ UNCHANGED t_fw
    /\ UNCHANGED <<fvars, avars, svars, kvars, pvars, rvars>>

\* api.py:236: SMXAPI.get_stage_config(player)
ApiGetStageConfig ==
    /\ \E ok \in BOOLEAN :
          Called("get_stage_config", get_stage_config(t_fw, t_config, t_dev, ok))
    /\ UNCHANGED t_dev

\* api.py:93: a read of stage.config
ReadConfig ==
    /\ \E ok \in BOOLEAN :
          Called("config", stage_config(t_fw, t_config, t_dev, ok))
    /\ UNCHANGED t_dev

\* api.py:100-102: stage.config = value
SetConfig ==
    /\ \E value \in Configs :
          Called("config.setter",
                 [io |-> <<>>, raised |-> "", value |-> NoConfig,
                  config |-> value])
    /\ UNCHANGED t_dev

\* api.py:211: SMXAPI.factory_reset(player)
FactoryReset ==
    \E oks \in [1..3 -> BOOLEAN] :
        LET r == factory_reset(t_fw, t_config, t_dev, oks)
        IN  /\ Called("factory_reset",
                      [io |-> r.io, raised |-> r.raised, value |-> NoConfig,
                       config |-> r.config])
            /\ t_dev' = r.dev

StageNext ==
    \/ ApiGetStageConfig
    \/ ReadConfig
    \/ SetConfig
    \/ FactoryReset

SpecStage == StageInit /\ [][StageNext]_vars

(***************************************************************************)
(* Cache and factory-reset claims, checked under SpecStage.                *)
(***************************************************************************)
ResetCalled == t_last.op = "factory_reset"

\* the set-light-strip commands the last call sent
LightsSent ==
    { n \in 1..Len(t_last.io) : t_last.io[n].cmd[1] = SET_LIGHT_STRIP }

QuerySent == Sent(<<GetConfigCmd(t_fw)>>, FALSE)

\* C34 as stated: factory_reset on a stage whose firmware version is below 5
\* sends the factory-reset command and then completes without error and
\* without sending any set-light-strip command; the light-strip command is
\* sent only for firmware 5 and up.
C34_OldFirmware ==
    ResetCalled =>
        /\ t_last.io[1] = Sent(<<FACTORY_RESET>>, TRUE)
        /\ LightsSent # {} => t_fw >= 5
        /\ (t_fw < 5 /\ t_last.raised # "SMXPacketTimeoutError")
              => (t_last.raised = "" /\ LightsSent = {})

\* what the code does below firmware 5: every factory_reset whose commands
\* were answered ends in UnboundLocalError
OldFirmwareRaises ==
    (ResetCalled /\ t_fw < 5) =>
        /\ LightsSent = {}
        /\ t_last.raised \in {"SMXPacketTimeoutError", "UnboundLocalError"}

\* C35 as stated: the platform strip color sent in the set-light-strip
\* command of factory_reset is taken from a configuration read from the
\* device after the factory-reset command was acknowledged, never from a
\* configuration cached before the reset.
C35_ColorReadAfterReset ==
    ResetCalled =>
        \A n \in LightsSent :
            /\ n = 3
            /\ t_last.io[2] = QuerySent
            /\ t_last.io[n].cmd = light_cmd(t_dev)

\* what the code does: the color comes from the cache whenever there is one
ColorFromCache ==
    (ResetCalled /\ t_last.before # NoConfig) =>
        /\ QuerySent \notin { t_last.io[n] : n \in 1..Len(t_last.io) }
        /\ \A n \in LightsSent : t_last.io[n].cmd = light_cmd(t_last.before)

\* C36: SMXAPI.get_stage_config always queries the device and leaves the
\* stage's cached configuration equal to the value it returns, whereas the
\* config property queries the device only when no configuration is cached
\* and otherwise returns the cached one without any I/O.
C36_QueryAndCache ==
    /\ t_last.op = "get_stage_config" =>
          /\ t_last.io = <<QuerySent>>
          /\ IF t_last.raised = ""
             THEN t_last.value = t_dev /\ t_config = t_last.value
             ELSE t_config = t_last.before
    /\ t_last.op = "config" =>
          IF t_last.before # NoConfig
          THEN /\ t_last.io = <<>>
               /\ t_last.raised = ""
               /\ t_last.value = t_last.before
               /\ t_config = t_last.before
          ELSE /\ t_last.io = <<QuerySent>>
               /\ IF t_last.raised = ""
                  THEN t_last.value = t_dev /\ t_config = t_last.value
                  ELSE t_config = NoConfig

\* a read of stage.config that found a cached configuration other than the
\* one the device holds
C36_Witness ==
    /\ t_last.op = "config"
    /\ t_last.before \in Configs
    /\ t_last.before # t_dev
    /\ t_last.io = <<>>
    /\ t_last.value = t_last.before

(***************************************************************************)
(* The relay (src/pysmx/hid/discovery.py:124-295): run gathers write_usb,  *)
(* read_usb and handle_usb on one asyncio event loop, so one thread runs   *)
(* all three, one at a time, each from one await to its next.  A client    *)
(* places commands on the input pipe (pipe.send_command waits for a        *)
(* message after each, so at most one command is unread) and the device    *)
(* sends reports whenever it likes.  A reader is taken to be waiting on    *)
(* the output pipe.                                                        *)
(***************************************************************************)
\* commands the client places in one behaviour
MaxPlaced == 2
\* reports the device sends in one behaviour
MaxReports == 3

COLON == 58
DEVINFO == <<100, 101, 118, 105, 110, 102, 111>>
INPUT == <<105, 110, 112, 117, 116>>
SENTINEL == 0 - 69

\* pipe.py:46: str(pad).encode() + b":" + cmd for a pad of one digit
write_cmd_event(pad, cmd) == <<48 + pad, COLON>> \o cmd

\* discovery.py:124-128
make_device_info_packet == pad_list(<<5, PACKET_FLAG_DEVICE_INFO, 0>>, 64)

\* discovery.py:150: pad, cmd = cmd.split(b":"), a ValueError unless the
\* data holds exactly one colon
split(data) ==
    LET colons == {i \in 1..Len(data) : data[i] = COLON}
        at == CHOOSE i \in colons : TRUE
    IN  IF Cardinality(colons) # 1
        THEN [raised |-> "ValueError", pad |-> <<>>, cmd |-> <<>>]
        ELSE [raised |-> "",
              pad |-> SubSeq(data, 1, at - 1),
              cmd |-> SubSeq(data, at + 1, Len(data))]

\* discovery.py:148-170: what one command read from the input pipe makes
\* write_usb do: the reports it writes to the device, the message it writes
\* to the output pipe, or the exception or the endless loop it ends in
write_usb(data) ==
    LET s == split(data)
        m == relay_make_send_packets(s.cmd)
    IN  IF s.raised # ""
        THEN [ends |-> "raised", packets |-> <<>>, out |-> <<>>]
        ELSE IF s.cmd = DEVINFO
        THEN [ends |-> "", packets |-> <<make_device_info_packet>>,
              out |-> <<>>]
        ELSE IF s.cmd = INPUT
        THEN [ends |-> "", packets |-> <<>>,
              out |-> <<[by |-> "write_usb",
                         data |-> <<0, 0, 0, 0, 0, 0, 0, 0, 0>>]>>]
        ELSE IF m.returned
        THEN [ends |-> "", packets |-> m.packets, out |-> <<>>]
        ELSE [ends |-> "make_send_packets", packets |-> <<>>, out |-> <<>>]

\* discovery.py:220-285, the relay's own handle_packet: the buffer it leaves,
\* with the sentinel -69 behind a command that ended, or the exception of
\* SMXDeviceInfo.from_bytes
relay_handle_packet(packet, buf) ==
    IF Len(packet) = 0 \/ packet[1] # 6 \/ Len(packet) < 3
    THEN [raised |-> "", buf |-> buf]
    ELSE LET cmd == packet[2]
             byte_len == packet[3]
             data == Slice(packet, 3, 3 + byte_len)
             info == IF HasFlag(cmd, PACKET_FLAG_DEVICE_INFO)
                     THEN from_bytes(data).raised
                     ELSE ""
             kept == IF HasFlag(cmd, PACKET_FLAG_START_OF_COMMAND)
                        /\ Len(buf) > 0
                     THEN <<>>
                     ELSE buf
             end == IF HasFlag(cmd, PACKET_FLAG_END_OF_COMMAND)
                    THEN <<SENTINEL>>
                    ELSE <<>>
         IN  IF 3 + byte_len > Len(packet)
             THEN [raised |-> "", buf |-> buf]
             ELSE IF info # ""
             THEN [raised |-> info, buf |-> buf]
             ELSE [raised |-> "", buf |-> kept \o data \o end]

\* discovery.py:201-215: the message handle_usb writes for the buffer
\* handle_packet left, if it writes one
handle_usb(buf) ==
    LET cp == SubSeq(buf, 1, Len(buf) - 1)
    IN  IF Len(buf) > 0 /\ buf[Len(buf)] = SENTINEL
        THEN [out |-> <<[by |-> "handle_usb",
                         data |-> IF Len(cp) = 0 THEN <<0>> ELSE cp]>>,
              buf |-> <<>>]
        ELSE [out |-> <<>>, buf |-> buf]

\* what the client places: the two custom commands, a command of one byte,
\* one that fills a report and one that needs two reports
RelayCommands ==
    { write_cmd_event(0, DEVINFO), write_cmd_event(1, INPUT),
      write_cmd_event(0, <<GET_CONFIG>>),
      write_cmd_event(0, CmdOf(61, 1)), write_cmd_event(1, CmdOf(62, 1)) }

\* a report with the device-info flag added to its flags
WithInfoFlag(report) == [report EXCEPT ![2] = @ + PACKET_FLAG_DEVICE_INFO]

\* what the device sends: an acknowledgement, a one-report payload, the two
\* reports of a longer payload, an input report, a device-info response with
\* the player digit "0", and a report that has the device-info flag without
\* a device-info payload
RelayReports ==
    { ACK_PACKET,
      DeviceReports(<<105, 0, 1>>)[1],
      DeviceReports(CmdOf(62, 1))[1],
      DeviceReports(CmdOf(62, 1))[2],
      <<HID_REPORT_INPUT, 5, 1>>,
      WithInfoFlag(DeviceReports(InfoResponse(48, CmdOf(16, 1), 5))[1]),
      WithInfoFlag(ACK_PACKET) }

RelayInit ==
    /\ FramingOff
    /\ AssemblerOff
    /\ SessionOff
    /\ CodecOff
    /\ ApiOff
    /\ StageOff
    /\ RelayOff

\* pipe.py:42-46: a client writes a command to the input pipe
PlaceCommand ==
    /\ in_pipe = <<>>
    /\ r_placed < MaxPlaced
    /\ \E data \in RelayCommands : in_pipe' = <<data>>
    /\ r_placed' = r_placed + 1
    /\ UNCHANGED <<usb_out, usb_in, queue, r_buf, out_pipe, thread, r_seen,
                   r_written>>
    /\ UNCHANGED <<fvars, avars, svars, kvars, pvars, tvars>>

\* the device sends a report
DeviceSends ==
    /\ Len(r_seen) + Len(queue) + Len(usb_in) < MaxReports
    /\ \E report \in RelayReports : usb_in' = Append(usb_in, report)
    /\ UNCHANGED <<in_pipe, usb_out, queue, r_buf, out_pipe, thread,
                   r_placed, r_seen, r_written>>
    /\ UNCHANGED <<fvars, avars, svars, kvars, pvars, tvars>>

\* discovery.py:137-172: one pass of write_usb that finds a command on the
\* input pipe (a pass that finds none changes nothing)
WriteUsb ==
    /\ thread = "loop"
    /\ in_pipe # <<>>
    /\ LET w == write_usb(Head(in_pipe))
       IN  /\ in_pipe' = Tail(in_pipe)
           /\ usb_out' = usb_out \o w.packets
           /\ out_pipe' = out_pipe \o w.out
           /\ thread' = IF w.ends = "" THEN "loop" ELSE w.ends
           /\ r_written' = IF w.ends = "" THEN r_written + 1 ELSE r_written
    /\ UNCHANGED <<usb_in, queue, r_buf, r_placed, r_seen>>
    /\ UNCHANGED <<fvars, avars, svars, kvars, pvars, tvars>>

\* discovery.py:182, 292: read_usb calls dev.read(64) on a device that run
\* made blocking; the call is not awaited, so the thread stays in it
ReadUsbEnter ==
    /\ thread = "loop"
    /\ thread' = "read_usb"
    /\ UNCHANGED <<in_pipe, usb_out, usb_in, queue, r_buf, out_pipe,
                   r_placed, r_seen, r_written>>
    /\ UNCHANGED <<fvars, avars, svars, kvars, pvars, tvars>>

\* discovery.py:182-186: dev.read returns once the device has sent a report;
\* the report goes on the queue and read_usb yields the thread
ReadUsbReturn ==
    /\ thread = "read_usb"
    /\ usb_in # <<>>
    /\ queue' = Append(queue, Head(usb_in))
    /\ usb_in' = Tail(usb_in)
    /\ thread' = "loop"
    /\ UNCHANGED <<in_pipe, usb_out, r_buf, out_pipe, r_placed, r_seen,
                   r_written>>
    /\ UNCHANGED <<fvars, avars, svars, kvars, pvars, tvars>>

\* discovery.py:196-217: one pass of handle_usb, from queue.get to the sleep
HandleUsb ==
    /\ thread = "loop"
    /\ queue # <<>>
    /\ LET p == relay_handle_packet(Head(queue), r_buf)
           h == handle_usb(p.buf)
       IN  /\ r_buf' = h.buf
           /\ out_pipe' = out_pipe \o h.out
           /\ thread' = IF p.raised = "" THEN "loop" ELSE "raised"
    /\ r_seen' = Append(r_seen, Head(queue))
    /\ queue' = Tail(queue)
    /\ UNCHANGED <<in_pipe, usb_out, usb_in, r_placed, r_written>>
    /\ UNCHANGED <<fvars, avars, svars, kvars, pvars, tvars>>

RelayNext ==
    \/ PlaceCommand
    \/ DeviceSends
    \/ WriteUsb
    \/ ReadUsbEnter
    \/ ReadUsbReturn
    \/ HandleUsb

\* discovery.py:288-295
SpecRelay == RelayInit /\ [][RelayNext]_vars

\* the event loop keeps running whichever coroutine can go on; nothing makes
\* the client place a command or the device send a report
SpecRelayLive ==
    /\ SpecRelay
    /\ WF_vars(WriteUsb)
    /\ WF_vars(ReadUsbEnter)
    /\ WF_vars(ReadUsbReturn)
    /\ WF_vars(HandleUsb)

\* the report completes a command: a command report that fits its length
\* byte and has the end flag
CompletesCommand(report) ==
    /\ Len(report) >= 3
    /\ report[1] = HID_REPORT_COMMAND
    /\ 3 + report[3] <= Len(report)
    /\ HasFlag(report[2], PACKET_FLAG_END_OF_COMMAND)

\* the payload assembled once the report is added to the buffer
Assembled(buf, report) ==
    (IF HasFlag(report[2], PACKET_FLAG_START_OF_COMMAND) THEN <<>> ELSE buf)
        \o SubSeq(report, 4, 3 + report[3])

HandleUsbMessages == SelectSeq(out_pipe, LAMBDA m : m.by = "handle_usb")

HandleUsbMessagesNext ==
    SelectSeq(out_pipe', LAMBDA m : m.by = "handle_usb")

\* what the claim says of one pass of handle_usb over the report it took
OneMessagePerCommand ==
    r_seen' # r_seen =>
        LET report == r_seen'[Len(r_seen')]
            payload == Assembled(r_buf, report)
        IN  IF CompletesCommand(report)
            THEN /\ HandleUsbMessagesNext =
                        Append(HandleUsbMessages,
                               [by |-> "handle_usb",
                                data |-> IF payload = <<>>
                                         THEN <<0>> ELSE payload])
                 /\ r_buf' = <<>>
            ELSE HandleUsbMessagesNext = HandleUsbMessages

\* C39: handle_usb writes exactly one message to the output pipe for every
\* report it reads that completes a command, in the order read: the
\* assembled payload, or the sentinel <<0>> when the payload is empty, and it
\* leaves the buffer empty; for any other report it writes nothing.
C39_OneMessagePerCommand == [][OneMessagePerCommand]_vars

\* what holds: the same of every pass in which handle_packet does not raise;
\* a pass in which it raises writes nothing, leaves the buffer as it was and
\* ends the relay
C39_UnlessDecodeRaises ==
    [][IF r_seen' # r_seen /\ thread' = "raised"
       THEN /\ HandleUsbMessagesNext = HandleUsbMessages
            /\ r_buf' = r_buf
            /\ CompletesCommand(r_seen'[Len(r_seen')])
            /\ HasFlag(r_seen'[Len(r_seen')][2], PACKET_FLAG_DEVICE_INFO)
       ELSE OneMessagePerCommand]_vars

\* handle_usb has written a payload and then a sentinel
C39_Witness ==
    /\ Len(HandleUsbMessages) = 2
    /\ HandleUsbMessages[1].data = <<105, 0, 1>>
    /\ HandleUsbMessages[2].data = <<0>>

\* C31: a command placed on the input pipe is eventually written to the
\* device by write_usb, whether or not the device sends a report.
C31_CommandWritten == (r_written < r_placed) ~> (r_written = r_placed)

\* what holds: while the thread is inside dev.read, which only a report from
\* the device ends, no command is taken from the input pipe
C31_BlockedInRead ==
    [][thread = "read_usb" /\ usb_in = <<>> =>
          /\ in_pipe' # <<>> => in_pipe' = in_pipe \/ in_pipe = <<>>
          /\ usb_out' = usb_out
          /\ r_written' = r_written]_vars

\* a command waits on the input pipe while the thread is inside dev.read and
\* the device has sent nothing
C31_Witness ==
    /\ thread = "read_usb"
    /\ usb_in = <<>>
    /\ in_pipe # <<>>
    /\ r_written < r_placed

====
